---- MODULE Spec2Model ----
(***************************************************************************)
(* PolicyRadar: the /policies route group (app/api/routers/policies.py)    *)
(* over the policies, policy_changes, impact_assessments and               *)
(* policy_categories tables (data/models/policy.py, data/models/impact.py).*)
(*                                                                         *)
(* A request is a process: it holds a session obtained from get_db, runs   *)
(* the statements of its handler in order and ends with a response.  The   *)
(* database is the shared state; a flush followed by COMMIT is one atomic  *)
(* step of the database, a SELECT is another.                              *)
(*                                                                         *)
(* Optional values are <<>> (None / NULL) or <<v>>.                        *)
(***************************************************************************)
EXTENDS Integers, Sequences, FiniteSets, TLC

\* ------------------------------------------------------------------ bounds
\* The id sequence of the policies table is capped: ids 1..MaxId are handed out.
MaxId == 2
\* PolicyChange / ImpactAssessment rows present in the database, per table.
MaxChildren == 1

\* The request slots: two requests can be in flight at once.
Requests == {"r1", "r2"}

None == <<>>
Some(v) == <<v>>

\* ------------------------------------------------------------------ enums
\* class PolicyStatus(enum.Enum): member name |-> value
PolicyStatus ==
  [DRAFT |-> "draft", PROPOSED |-> "proposed", ENACTED |-> "enacted",
   IMPLEMENTED |-> "implemented", AMENDED |-> "amended",
   REPEALED |-> "repealed", EXPIRED |-> "expired"]

\* class PolicyType(enum.Enum): member name |-> value
PolicyType ==
  [LEGISLATION |-> "legislation", REGULATION |-> "regulation",
   EXECUTIVE_ORDER |-> "executive_order", GUIDANCE |-> "guidance",
   STANDARD |-> "standard", AGREEMENT |-> "agreement"]

EnumValues(enum) == {enum[n] : n \in DOMAIN enum}
\* Enum(value): the member (held by its name) with that value.
EnumMember(enum, value) == CHOOSE n \in DOMAIN enum : enum[n] = value

\* ------------------------------------------------------------------ schema
\* The columns of Policy that PolicySchema carries (all but id).
Fields ==
  {"title", "description", "policy_number", "jurisdiction", "policy_type",
   "status", "proposed_date", "enacted_date", "effective_date",
   "expiration_date", "regulatory_body", "authority", "content_summary",
   "full_text_url", "source_url", "estimated_impact", "impact_confidence",
   "affected_industries", "category_id"}

SchemaFields == Fields \cup {"id"}

\* Fields of PolicySchema declared without a default.
Required == {"title", "policy_number", "jurisdiction", "policy_type"}

\* The default PolicySchema declares for a field a body omits.
SchemaDefault(f) == IF f = "status" THEN "DRAFT" ELSE None

\* Pydantic's validation of a request body: the required fields are present
\* and the enum fields carry a value of their enum.
SchemaValid(body) ==
  /\ Required \subseteq DOMAIN body
  /\ body["policy_type"] \in EnumValues(PolicyType)
  /\ "status" \in DOMAIN body => body["status"] \in EnumValues(PolicyStatus)

\* A schema that takes no status from the body: the field keeps its default.
PolicySchemaNoStatus(body) ==
  [f \in SchemaFields |->
     IF f \notin DOMAIN body \/ f = "status" THEN SchemaDefault(f)
     ELSE IF f = "policy_type" THEN EnumMember(PolicyType, body[f])
     ELSE body[f]]

\* The parsed model PolicySchema(**body): every declared field, a default
\* where the body has none, enum values turned into members.  Keys the
\* schema does not declare are dropped.
PolicySchema(body) ==
  [f \in SchemaFields |->
     IF f \notin DOMAIN body THEN SchemaDefault(f)
     ELSE IF f = "status" THEN EnumMember(PolicyStatus, body[f])
     ELSE IF f = "policy_type" THEN EnumMember(PolicyType, body[f])
     ELSE body[f]]

\* policy.dict() with no exclude: the id of the body stays among the values.
DictKeepId(policy) == policy

\* policy.dict(exclude={"id"})
DictExcludeId(policy) == [f \in Fields |-> policy[f]]

\* A response that serialises enum members by name instead of by value.
PolicyResponseByName(id, row) ==
  [f \in SchemaFields |-> IF f = "id" THEN Some(id) ELSE row[f]]

\* The response model: PolicySchema built from the attributes of a Policy
\* row, serialised with enum members as their values.
PolicyResponse(id, row) ==
  [f \in SchemaFields |->
     IF f = "id" THEN Some(id)
     ELSE IF f = "status" THEN PolicyStatus[row[f]]
     ELSE IF f = "policy_type" THEN PolicyType[row[f]]
     ELSE row[f]]

\* ------------------------------------------------------------------ inputs
\* The ids of the rows of policy_categories (no route writes this table).
policy_categories == {1}

BaseBody ==
  [title |-> "Test", policy_number |-> "US-TST-0001", jurisdiction |-> "US",
   policy_type |-> "regulation"]

FullBody ==
  [id |-> Some(1), title |-> "Carbon", description |-> Some("levy on carbon"),
   policy_number |-> "EU-CRB-0002", jurisdiction |-> "EU",
   policy_type |-> "legislation", status |-> "enacted",
   proposed_date |-> Some(2), content_summary |-> Some("Summary"),
   estimated_impact |-> Some(-150), impact_confidence |-> Some(50),
   affected_industries |-> Some(<<"energy", "technology">>),
   category_id |-> Some(1)]

\* The policy_number of BaseBody with other values in the other fields.
RenamedBody ==
  [id |-> Some(2), title |-> "Test", description |-> Some("renamed"),
   policy_number |-> "US-TST-0001", jurisdiction |-> "US",
   policy_type |-> "regulation", status |-> "enacted"]

\* Request bodies of POST and PUT.
Bodies ==
  { BaseBody,
    FullBody,
    RenamedBody,
    \* a category that does not exist
    [title |-> "Orphan", policy_number |-> "UK-ORP-0003", jurisdiction |-> "UK",
     policy_type |-> "guidance", category_id |-> Some(2)],
    \* no title: rejected by the schema
    [policy_number |-> "US-TST-0004", jurisdiction |-> "US",
     policy_type |-> "regulation"] }

\* PUT declares its body as PolicySchema = None: a PUT may come without one.
NoBody == [nobody |-> TRUE]

Ids == 1..MaxId

\* The query parameters of GET /: skip and limit, and the six filters, each
\* None when the request does not carry it.
NoQuery == [noquery |-> TRUE]

\* The largest limit GET / declares: Query(100, ge=1, le=1000).
LimitMax == 1000
\* The largest limit of /recent/ and /high-risk/: Query(50, ge=1, le=500).
RankLimitMax == 500
\* The largest days of /recent/: Query(30, ge=1, le=365).
DaysMax == 365
\* Policy.estimated_impact < -100, in millions USD.
HighImpact == -100
\* Policy.impact_confidence < 0.6, in hundredths.
LowConfidence == 60

Pages ==
  { [skip |-> 0, limit |-> LimitMax], [skip |-> 0, limit |-> 1],
    [skip |-> 1, limit |-> 1], [skip |-> 1, limit |-> 2],
    [skip |-> -1, limit |-> LimitMax], [skip |-> 0, limit |-> 0],
    [skip |-> 0, limit |-> LimitMax + 1] }

Queries ==
  { [skip |-> pg.skip, limit |-> pg.limit, jurisdiction |-> j, industry |-> i,
     status |-> s, category_id |-> c, start_date |-> sd, end_date |-> ed] :
      pg \in Pages,
      j \in {None, Some(""), Some("US")},
      i \in {None, Some(""), Some("energy")},
      s \in {None, Some(""), Some("ENACTED"), Some("enacted"), Some("bogus")},
      c \in {None, Some(0), Some(1)},
      sd \in {None, Some(2)},
      ed \in {None, Some(2)} }

\* The bodies whose POSTs filled the table that the listings read.
Seeds ==
  << FullBody,
     [title |-> "Tariff", policy_number |-> "US-TRF-0005", jurisdiction |-> "US",
      policy_type |-> "regulation", status |-> "proposed",
      proposed_date |-> Some(3), affected_industries |-> Some(<<>>)],
     [title |-> "Privacy", policy_number |-> "US-PRV-0006", jurisdiction |-> "US",
      policy_type |-> "guidance", status |-> "enacted",
      proposed_date |-> Some(1), category_id |-> Some(1),
      affected_industries |-> Some(<<"technology">>)],
     BaseBody >>

\* The rows of the companies table that the company listings read.
CompanySeeds ==
  << [name |-> "Acme", industry |-> "energy", headquarters_country |-> "US"],
     [name |-> "Bolt", industry |-> "technology", headquarters_country |-> "US"],
     [name |-> "Cern", industry |-> "energy", headquarters_country |-> "DE"] >>

\* The query parameters of GET /companies.
CompanyQueries ==
  { [skip |-> pg.skip, limit |-> pg.limit, industry |-> i, country |-> c] :
      pg \in Pages,
      i \in {None, Some(""), Some("energy")},
      c \in {None, Some("US")} }

\* The limits, days and clock readings of /recent/ and /high-risk/.
RankLimits == {0, 1, 2, RankLimitMax, RankLimitMax + 1}
RankDays == {0, 1, 2, 3, DaysMax, DaysMax + 1}
Clock == {4, 5}

\* The child rows that the lookups read.
ChangeSeeds == {[id |-> 1, policy_id |-> Some(1)], [id |-> 2, policy_id |-> Some(1)]}
ProfileSeeds == {[id |-> 1, company_id |-> 1]}
MetricSeeds ==
  {[id |-> 1, company_id |-> 1, date |-> 1], [id |-> 2, company_id |-> 1, date |-> 2]}
\* The ids the lookups ask for: stored ones and one that is not.
LookupIds == 1..3

\* The bodies whose POSTs filled the table that the summary and the ranked
\* listings read: impacts with a tie, a boundary value and a NULL, tags with
\* a repetition, an empty list and a NULL.
RankSeeds ==
  << FullBody,
     [policy_number |-> "US-RNK-0007", status |-> "proposed",
      proposed_date |-> Some(3), estimated_impact |-> Some(-200),
      impact_confidence |-> Some(90),
      affected_industries |-> Some(<<"technology">>)] @@ BaseBody,
     [policy_number |-> "US-RNK-0008", impact_confidence |-> Some(50)] @@ BaseBody,
     [policy_number |-> "EU-RNK-0009", jurisdiction |-> "EU", status |-> "enacted",
      proposed_date |-> Some(1), estimated_impact |-> Some(-100),
      impact_confidence |-> Some(60),
      affected_industries |-> Some(<<>>)] @@ BaseBody,
     [policy_number |-> "US-RNK-0010", status |-> "enacted",
      proposed_date |-> Some(3), estimated_impact |-> Some(-150),
      affected_industries |-> Some(<<"energy", "energy">>)] @@ BaseBody >>

\* The query parameters of GET /analytics/summary.
SummaryQueries ==
  { [jurisdiction |-> j, start_date |-> sd, end_date |-> ed] :
      j \in {None, Some(""), Some("US")},
      sd \in {None, Some(2)},
      ed \in {None, Some(2)} }

\* What can go wrong in the persistence step: the connection is lost before
\* the statements run, or after them while COMMIT is in progress.
Faults == {"none", "connect", "commit"}

\* ------------------------------------------------------------------ state
VARIABLES
  policies,            \* table policies: id |-> row (the columns in Fields)
  policies_id_seq,     \* the next value of the sequence behind Policy.id
  policy_changes,      \* table policy_changes: rows [id, policy_id]
  impact_assessments,  \* table impact_assessments: rows [id, policy_id]
  req,                 \* per request slot: handler, position, locals, answer
  created,             \* history: id |-> body of the POST that created it
  updated,             \* history: ids a PUT has committed a change to
  deleted,             \* history: ids a DELETE has committed the removal of
  companies,           \* table companies: id |-> row
  company_profiles,    \* table company_profiles: rows [id, company_id]
  financial_metrics,   \* table financial_metrics: rows [id, company_id, date]
  clock,               \* what datetime.utcnow() returns now
  stamps               \* policies.created_at / updated_at: id |-> the two columns

tables == <<policies, policy_changes, impact_assessments>>
history == <<created, updated, deleted>>
\* The tables of data/models/company.py: no route writes them.
company_tables == <<companies, company_profiles, financial_metrics>>
\* The clock and the two timestamp columns of Base.
times == <<clock, stamps>>
vars == <<policies, policies_id_seq, policy_changes, impact_assessments, req,
          created, updated, deleted, companies, company_profiles,
          financial_metrics, clock, stamps>>

\* ------------------------------------------------------------------ requests
Idle ==
  [kind |-> "none", pc |-> "idle", policy_id |-> 0, body |-> NoBody,
   query |-> NoQuery, db_policy |-> None, status |-> 0, response |-> None,
   session |-> "none", fault |-> "none", rollback |-> FALSE]

\* A slot takes a new request when it holds none or an answered one.
Free(r) == req[r].pc \in {"idle", "done"}

\* get_db up to the yield: db = SessionLocal()
Begin(kind, id, body) ==
  [Idle EXCEPT !.kind = kind, !.policy_id = id, !.body = body,
               !.session = "open"]

\* get_db without its finally: the session stays as the handler left it.
GetDbNoClose(q) == q

\* get_db after the yield: finally: db.close()
GetDbFinally(q) == [q EXCEPT !.session = "closed"]

\* The handler returns or raises: the response goes out and get_db resumes.
Answer(q, status, response) ==
  GetDbFinally([q EXCEPT !.pc = "done", !.status = status,
                         !.response = response])

\* An except branch that raises the 500 without db.rollback().
ExceptNoRollback(q) == Answer(q, 500, None)

\* except Exception: db.rollback(); raise HTTPException(status_code=500)
ExceptRollback(q) == Answer([q EXCEPT !.rollback = TRUE], 500, None)

\* ------------------------------------------------------------------ database
\* db.query(Policy).filter(Policy.id == policy_id).first()
First(policy_id) ==
  IF policy_id \in DOMAIN policies THEN Some(policies[policy_id]) ELSE None

\* policy_number declared without unique=True.
PolicyNumberNotUnique(tbl) == TRUE

\* policy_number = Column(String(100), unique=True, ...)
PolicyNumberUnique(tbl) ==
  \A i, j \in DOMAIN tbl :
     i # j => tbl[i]["policy_number"] # tbl[j]["policy_number"]

\* category_id = Column(Integer, ForeignKey("policy_categories.id"), nullable=True)
CategoryForeignKey(tbl) ==
  \A i \in DOMAIN tbl :
     tbl[i]["category_id"] # None => tbl[i]["category_id"][1] \in policy_categories

\* The constraints the database checks on the policies table.
PolicyConstraints(tbl) == PolicyNumberUnique(tbl) /\ CategoryForeignKey(tbl)

\* policy_id declared nullable: a NULL policy_id passes the constraint.
ChildConstraintsNullable(children, tbl) ==
  \A c \in children :
     c.policy_id # None => c.policy_id[1] \in DOMAIN tbl

\* policy_id = Column(Integer, ForeignKey("policies.id"), nullable=False)
ChildConstraints(children, tbl) ==
  \A c \in children :
     c.policy_id # None /\ c.policy_id[1] \in DOMAIN tbl

\* The rows of a child table that the relationship of a policy loads.
ChildrenOf(children, policy_id) ==
  {c \in children : c.policy_id = Some(policy_id)}

\* A relationship declared with cascade="all, delete": the child rows of a
\* deleted parent are deleted with it.
Cascaded(children, policy_id) ==
  {c \in children : c.policy_id # Some(policy_id)}

\* Deleting a parent whose relationship has no delete cascade: the unit of
\* work sets the foreign key of every loaded child to NULL.
Orphaned(children, policy_id) ==
  {IF c.policy_id = Some(policy_id) THEN [c EXCEPT !.policy_id = None] ELSE c :
     c \in children}

\* A DELETE that removes no row.
WithoutNothing(tbl, policy_id) == tbl

Without(tbl, policy_id) == [i \in DOMAIN tbl \ {policy_id} |-> tbl[i]]

With(tbl, policy_id, row) ==
  [i \in DOMAIN tbl \cup {policy_id} |-> IF i = policy_id THEN row ELSE tbl[i]]

\* created_at = Column(DateTime, default=datetime.utcnow)
\* updated_at = Column(DateTime, default=datetime.utcnow, onupdate=...)
\* An INSERT fills both columns with the reading of the clock.
Inserted(now) == [created_at |-> now, updated_at |-> now]

\* An UPDATE that leaves created_at and updated_at as they are.
OnUpdateKeep(stamp, now) == stamp

\* onupdate=datetime.utcnow: an UPDATE statement sets updated_at.
OnUpdate(stamp, now) == [stamp EXCEPT !.updated_at = now]

TypeOK ==
  /\ DOMAIN policies \subseteq 1..(policies_id_seq - 1)
  /\ \A r \in Requests : req[r].pc \in {"idle", "commit", "refresh", "loop", "done"}

Init ==
  /\ policies = <<>>
  /\ policies_id_seq = 1
  /\ policy_changes = {}
  /\ impact_assessments = {}
  /\ req = [r \in Requests |-> Idle]
  /\ created = <<>>
  /\ updated = {}
  /\ deleted = {}
  /\ companies = <<>>
  /\ company_profiles = {}
  /\ financial_metrics = {}
  /\ clock = 0
  /\ stamps = [i \in DOMAIN policies |-> Inserted(0)]

\* ------------------------------------------------------------------ GET /{policy_id}
get_policy(r, policy_id) ==
  /\ Free(r)
  /\ LET q == Begin("get_policy", policy_id, NoBody)
         policy == First(policy_id)
     IN req' = [req EXCEPT ![r] =
                  IF policy = None
                  THEN Answer(q, 404, None)
                  ELSE Answer(q, 200, Some(PolicyResponse(policy_id, policy[1])))]
  /\ UNCHANGED <<tables, company_tables, policies_id_seq, history, times>>

\* ------------------------------------------------------------------ POST /
\* The primary key of a pending Policy: the id attribute when the
\* constructor was given one, else the next value of the sequence.
InsertId(attrs) ==
  IF "id" \in DOMAIN attrs /\ attrs["id"] # None
  THEN attrs["id"][1] ELSE policies_id_seq

\* db_policy = Policy(**policy.dict(exclude={"id"})); db.add(db_policy);
\* db.commit(), and the except branch when the commit raises.
create_policy(r, body, fault) ==
  /\ Free(r)
  /\ policies_id_seq <= MaxId
  /\ LET q == Begin("create_policy", 0, body) IN
     IF ~SchemaValid(body)
     THEN /\ req' = [req EXCEPT ![r] = Answer(q, 422, None)]
          /\ UNCHANGED <<tables, company_tables, policies_id_seq, history,
                         times>>
     ELSE
       LET attrs == DictExcludeId(PolicySchema(body))
           p == [q EXCEPT !.fault = fault]
           id == InsertId(attrs)
           row == [f \in Fields |-> attrs[f]]
           inserted == With(policies, id, row)
           ok == /\ fault = "none"
                 /\ id \notin DOMAIN policies
                 /\ PolicyConstraints(inserted)
       IN /\ policies_id_seq' =
               IF fault = "connect" \/ id # policies_id_seq
               THEN policies_id_seq ELSE policies_id_seq + 1
          /\ policies' = IF ok THEN inserted ELSE policies
          /\ created' = IF ok THEN With(created, id, body) ELSE created
          /\ stamps' = IF ok THEN With(stamps, id, Inserted(clock)) ELSE stamps
          /\ req' = [req EXCEPT ![r] =
                       IF ok THEN [p EXCEPT !.pc = "refresh", !.policy_id = id]
                       ELSE ExceptRollback(p)]
          /\ UNCHANGED <<policy_changes, impact_assessments, updated, deleted,
                         company_tables, clock>>

\* db.refresh(db_policy); return db_policy
Refresh(r) ==
  LET q == req[r]
      policy == First(q.policy_id)
  IN /\ q.pc = "refresh"
     /\ req' = [req EXCEPT ![r] =
                  IF policy = None
                  THEN ExceptRollback(q)
                  ELSE Answer(q, 200, Some(PolicyResponse(q.policy_id, policy[1])))]
     /\ UNCHANGED <<tables, company_tables, policies_id_seq, history, times>>

create_policy_refresh(r) == req[r].kind = "create_policy" /\ Refresh(r)

\* ------------------------------------------------------------------ PUT /{policy_id}
\* db_policy = db.query(Policy)...first(); if not db_policy: raise 404
update_policy_query(r, policy_id, body) ==
  /\ Free(r)
  /\ LET q == Begin("update_policy", policy_id, body)
         db_policy == First(policy_id)
     IN req' = [req EXCEPT ![r] =
                  IF body # NoBody /\ ~SchemaValid(body) THEN Answer(q, 422, None)
                  ELSE IF db_policy = None THEN Answer(q, 404, None)
                  ELSE [q EXCEPT !.pc = "commit", !.db_policy = db_policy]]
  /\ UNCHANGED <<tables, company_tables, policies_id_seq, history, times>>

\* Patch semantics: a value of None leaves the attribute as loaded.
DirtyNotNone(loaded, values) ==
  {f \in DOMAIN values :
     /\ values[f] # loaded[f]
     /\ (f \in Required \cup {"status"} \/ values[f] # None)}

\* for key, value in policy.dict(exclude={"id"}).items(): setattr(...)
\* The attributes whose value differs from the loaded one: the unit of work
\* writes these columns and no others.
Dirty(loaded, values) == {f \in DOMAIN values : values[f] # loaded[f]}

\* db.commit() of update_policy, and the except branch when it raises.
update_policy_commit(r, fault) ==
  LET q == req[r] IN
  /\ q.kind = "update_policy"
  /\ q.pc = "commit"
  /\ IF q.body = NoBody
     THEN \* policy is None: policy.dict raises AttributeError
          /\ req' = [req EXCEPT ![r] = ExceptRollback(q)]
          /\ UNCHANGED <<tables, company_tables, policies_id_seq, history,
                         times>>
     ELSE
       LET values == DictExcludeId(PolicySchema(q.body))
           p == [q EXCEPT !.fault = fault]
           loaded == [f \in SchemaFields |->
                        IF f = "id" THEN Some(q.policy_id) ELSE q.db_policy[1][f]]
           dirty == Dirty(loaded, values)
           present == q.policy_id \in DOMAIN policies
           \* UPDATE policies SET <dirty columns> WHERE id = policy_id
           row == [f \in Fields |->
                     IF f \in dirty THEN values[f] ELSE policies[q.policy_id][f]]
           id == IF "id" \in dirty /\ values["id"] # None
                 THEN values["id"][1] ELSE q.policy_id
           written == With(Without(policies, q.policy_id), id, row)
           ok == /\ fault = "none"
                 /\ dirty # {} =>
                      /\ present
                      /\ ~("id" \in dirty /\ values["id"] = None)
                      /\ id # q.policy_id => id \notin DOMAIN policies
                      /\ PolicyConstraints(written)
                      /\ ChildConstraints(policy_changes, written)
                      /\ ChildConstraints(impact_assessments, written)
       IN /\ policies' = IF ok /\ dirty # {} THEN written ELSE policies
          /\ updated' = IF ok /\ dirty # {} THEN updated \cup {q.policy_id}
                        ELSE updated
          /\ stamps' = IF ok /\ dirty # {}
                       THEN With(Without(stamps, q.policy_id), id,
                                 OnUpdate(stamps[q.policy_id], clock))
                       ELSE stamps
          /\ req' = [req EXCEPT ![r] =
                       IF ok THEN [p EXCEPT !.pc = "refresh"]
                       ELSE ExceptRollback(p)]
          /\ UNCHANGED <<policy_changes, impact_assessments, policies_id_seq,
                         created, deleted, company_tables, clock>>

update_policy_refresh(r) == req[r].kind = "update_policy" /\ Refresh(r)

\* ------------------------------------------------------------------ DELETE /{policy_id}
\* delete_policy without `if not db_policy: raise 404`.
delete_policy_query_unchecked(r, policy_id) ==
  /\ Free(r)
  /\ req' = [req EXCEPT ![r] =
               [Begin("delete_policy", policy_id, NoBody)
                  EXCEPT !.pc = "commit", !.db_policy = First(policy_id)]]
  /\ UNCHANGED <<tables, company_tables, policies_id_seq, history, times>>

\* db_policy = db.query(Policy)...first(); if not db_policy: raise 404
delete_policy_query(r, policy_id) ==
  /\ Free(r)
  /\ LET q == Begin("delete_policy", policy_id, NoBody)
         db_policy == First(policy_id)
     IN req' = [req EXCEPT ![r] =
                  IF db_policy = None THEN Answer(q, 404, None)
                  ELSE [q EXCEPT !.pc = "commit", !.db_policy = db_policy]]
  /\ UNCHANGED <<tables, company_tables, policies_id_seq, history, times>>

\* db.delete(db_policy); db.commit(), and the except branch when it raises.
\* The flush first detaches the rows of Policy.changes and
\* Policy.impact_assessments, then deletes the policy row; a DELETE that
\* matches no row is a warning, not an error.
delete_policy_commit(r, fault) ==
  LET q == req[r]
      p == [q EXCEPT !.fault = fault]
      changes == Orphaned(policy_changes, q.policy_id)
      assessments == Orphaned(impact_assessments, q.policy_id)
      remaining == Without(policies, q.policy_id)
      ok == /\ fault = "none"
            /\ ChildConstraints(changes, remaining)
            /\ ChildConstraints(assessments, remaining)
  IN /\ q.kind = "delete_policy"
     /\ q.pc = "commit"
     /\ policies' = IF ok THEN remaining ELSE policies
     /\ policy_changes' = IF ok THEN changes ELSE policy_changes
     /\ impact_assessments' = IF ok THEN assessments ELSE impact_assessments
     /\ deleted' = IF ok THEN deleted \cup {q.policy_id} ELSE deleted
     /\ stamps' = IF ok THEN Without(stamps, q.policy_id) ELSE stamps
     /\ req' = [req EXCEPT ![r] =
                  IF ok THEN Answer(p, 200, None) ELSE ExceptRollback(p)]
     /\ UNCHANGED <<policies_id_seq, created, updated, company_tables, clock>>

\* ------------------------------------------------------------------ child rows
\* No route writes policy_changes or impact_assessments: their rows are
\* inserted into the database directly, under the foreign key to policies.
insert_policy_change(policy_id) ==
  LET inserted == policy_changes \cup
                    {[id |-> Cardinality(policy_changes) + 1,
                      policy_id |-> Some(policy_id)]}
  IN /\ Cardinality(policy_changes) < MaxChildren
     /\ ChildConstraints(inserted, policies)
     /\ policy_changes' = inserted
     /\ UNCHANGED <<policies, impact_assessments, policies_id_seq, req, history,
                   company_tables, times>>

insert_impact_assessment(policy_id) ==
  LET inserted == impact_assessments \cup
                    {[id |-> Cardinality(impact_assessments) + 1,
                      policy_id |-> Some(policy_id)]}
  IN /\ Cardinality(impact_assessments) < MaxChildren
     /\ ChildConstraints(inserted, policies)
     /\ impact_assessments' = inserted
     /\ UNCHANGED <<policies, policy_changes, policies_id_seq, req, history,
                   company_tables, times>>

\* ------------------------------------------------------------------ GET /
\* A parameter declared without bounds: every integer passes.
Unbounded(value, ge, le) == TRUE

\* Query(..., ge=ge, le=le): the framework answers 422 for a value outside.
InRange(value, ge, le) == ge <= value /\ value <= le

\* skip: int = Query(0, ge=0); limit: int = Query(100, ge=1, le=1000)
ValidPage(q) == q.skip >= 0 /\ InRange(q.limit, 1, LimitMax)

\* `if jurisdiction is not None:`: the empty string filters too.
NotNoneStr(param) == param # None

\* `if jurisdiction:` on an Optional[str], `if category_id:` on an Optional[int]
TruthyStr(param) == param # None /\ param[1] # ""

TruthyInt(param) == param # None /\ param[1] # 0

\* Policy.affected_industries.contains([industry]): JSONB @> on the array
JsonbContains(column, industry) ==
  /\ column # None
  /\ \E k \in 1..Len(column[1]) : column[1][k] = industry

\* The WHERE clause get_policies builds: one condition per filter() call.
Where(row, q) ==
  /\ TruthyStr(q.jurisdiction) => row["jurisdiction"] = q.jurisdiction[1]
  /\ TruthyStr(q.industry) =>
       JsonbContains(row["affected_industries"], q.industry[1])
  /\ TruthyStr(q.status) => row["status"] = q.status[1]
  /\ TruthyInt(q.category_id) => row["category_id"] = q.category_id
  /\ q.start_date # None =>
       /\ row["proposed_date"] # None
       /\ row["proposed_date"][1] >= q.start_date[1]
  /\ q.end_date # None =>
       /\ row["proposed_date"] # None
       /\ row["proposed_date"][1] <= q.end_date[1]

\* A page cut one row late: rows skip+1 .. skip+limit+1.
OffsetLimitOneMore(rows, skip, limit) ==
  SubSeq(rows, skip + 1,
         IF skip + limit + 1 < Len(rows) THEN skip + limit + 1 ELSE Len(rows))

\* query.offset(skip).limit(limit).all() over the rows in scan order
OffsetLimit(rows, skip, limit) ==
  SubSeq(rows, skip + 1, IF skip + limit < Len(rows) THEN skip + limit ELSE Len(rows))

\* The orders in which a query without ORDER BY can return the rows.
ScanOrders(ids) ==
  {o \in [1..Cardinality(ids) -> ids] :
     \A a, b \in 1..Cardinality(ids) : a # b => o[a] # o[b]}

get_policies(r, q, scan) ==
  /\ Free(r)
  /\ LET p == [Begin("get_policies", 0, NoBody) EXCEPT !.query = q]
         Match(policy_id) == Where(policies[policy_id], q)
         page == OffsetLimit(SelectSeq(scan, Match), q.skip, q.limit)
     IN req' = [req EXCEPT ![r] =
                  IF ~ValidPage(q)
                  THEN \* Query(ge=0), Query(ge=1, le=1000)
                       Answer(p, 422, None)
                  ELSE IF TruthyStr(q.status) /\ q.status[1] \notin DOMAIN PolicyStatus
                  THEN \* the comparison with the enum column raises
                       Answer(p, 500, None)
                  ELSE Answer(p, 200,
                         Some([k \in 1..Len(page) |->
                                 PolicyResponse(page[k], policies[page[k]])]))]
  /\ UNCHANGED <<tables, company_tables, policies_id_seq, history, times>>

\* ------------------------------------------------------------------ text
\* The text values of the model, character by character.
Chars ==
  [Test |-> <<"T", "e", "s", "t">>,
   Carbon |-> <<"C", "a", "r", "b", "o", "n">>,
   Tariff |-> <<"T", "a", "r", "i", "f", "f">>,
   Privacy |-> <<"P", "r", "i", "v", "a", "c", "y">>,
   Orphan |-> <<"O", "r", "p", "h", "a", "n">>,
   Summary |-> <<"S", "u", "m", "m", "a", "r", "y">>,
   renamed |-> <<"r", "e", "n", "a", "m", "e", "d">>]
    @@ ("levy on carbon" :>
          <<"l", "e", "v", "y", " ", "o", "n", " ", "c", "a", "r", "b", "o", "n">>)

LowerOf ==
  [A |-> "a", B |-> "b", C |-> "c", D |-> "d", E |-> "e", F |-> "f", G |-> "g",
   H |-> "h", I |-> "i", J |-> "j", K |-> "k", L |-> "l", M |-> "m", N |-> "n",
   O |-> "o", P |-> "p", Q |-> "q", R |-> "r", S |-> "s", T |-> "t", U |-> "u",
   V |-> "v", W |-> "w", X |-> "x", Y |-> "y", Z |-> "z"]

Lower(c) == IF c \in DOMAIN LowerOf THEN LowerOf[c] ELSE c

\* text ILIKE pattern: % matches any run of characters, _ any one character,
\* every other character itself without regard to case.
RECURSIVE ILike(_, _)
ILike(text, pattern) ==
  IF pattern = <<>> THEN text = <<>>
  ELSE IF Head(pattern) = "%"
  THEN ILike(text, Tail(pattern)) \/ (text # <<>> /\ ILike(Tail(text), pattern))
  ELSE /\ text # <<>>
       /\ Head(pattern) = "_" \/ Lower(Head(pattern)) = Lower(Head(text))
       /\ ILike(Tail(text), Tail(pattern))

\* ------------------------------------------------------------------ GET /search/
\* The values of q the searches carry.
SearchTerms ==
  { <<>>, <<"c", "a", "r">>, <<"C", "A", "R">>, <<"L", "e", "v", "y">>,
    <<"s", "u", "m">>, <<"z">>, <<"_">>, <<"t", "%", "t">> }

\* Column.ilike(f"%{q}%") on a column that may be NULL: NULL matches nothing.
ColumnILike(column, q) ==
  /\ column # None
  /\ ILike(Chars[column[1]], <<"%">> \o q \o <<"%">>)

\* title ILIKE ... OR description ILIKE ... OR content_summary ILIKE ...
SearchWhere(row, q) ==
  \/ ColumnILike(Some(row["title"]), q)
  \/ ColumnILike(row["description"], q)
  \/ ColumnILike(row["content_summary"], q)

search_policies(r, query, scan) ==
  /\ Free(r)
  /\ LET p == [Begin("search_policies", 0, NoBody) EXCEPT !.query = query]
         Match(policy_id) == SearchWhere(policies[policy_id], query.q)
         page == OffsetLimit(SelectSeq(scan, Match), query.skip, query.limit)
     IN req' = [req EXCEPT ![r] =
                  IF ~ValidPage(query)
                  THEN Answer(p, 422, None)
                  ELSE Answer(p, 200,
                         Some([k \in 1..Len(page) |->
                                 PolicyResponse(page[k], policies[page[k]])]))]
  /\ UNCHANGED <<tables, company_tables, policies_id_seq, history, times>>

\* ------------------------------------------------------------------ GET /high-risk/
\* (estimated_impact < -100) | (impact_confidence < 0.6): a comparison with
\* NULL is NULL, and NULL OR TRUE is TRUE.
HighRisk(row) ==
  \/ row["estimated_impact"] # None /\ row["estimated_impact"][1] < HighImpact
  \/ row["impact_confidence"] # None /\ row["impact_confidence"][1] < LowConfidence

\* ORDER BY column DESC where ASC was written.
Desc(order, column) ==
  \A a, b \in 1..Len(order) :
     a < b =>
       LET x == policies[order[a]][column]
           y == policies[order[b]][column]
       IN (x = None => y = None) /\ (x # None /\ y # None => x[1] >= y[1])

\* ORDER BY column ASC: ascending, NULLs last, ties in any order.
Asc(order, column) ==
  \A a, b \in 1..Len(order) :
     a < b =>
       LET x == policies[order[a]][column]
           y == policies[order[b]][column]
       IN (x = None => y = None) /\ (x # None /\ y # None => x[1] <= y[1])

\* ORDER BY column DESC over rows whose column is not NULL.
DescNotNull(order, column) ==
  \A a, b \in 1..Len(order) :
     a < b => policies[order[a]][column][1] >= policies[order[b]][column][1]

\* .limit(limit).all()
Limit(rows, limit) == SubSeq(rows, 1, IF limit < Len(rows) THEN limit ELSE Len(rows))

get_high_risk_policies(r, limit, order) ==
  /\ Free(r)
  /\ order \in ScanOrders({i \in DOMAIN policies : HighRisk(policies[i])})
  /\ Asc(order, "estimated_impact")
  /\ LET p == [Begin("get_high_risk_policies", 0, NoBody)
                 EXCEPT !.query = [limit |-> limit]]
         page == Limit(order, limit)
     IN req' = [req EXCEPT ![r] =
                  IF ~InRange(limit, 1, RankLimitMax)
                  THEN Answer(p, 422, None)
                  ELSE Answer(p, 200,
                         Some([k \in 1..Len(page) |->
                                 PolicyResponse(page[k], policies[page[k]])]))]
  /\ UNCHANGED <<tables, company_tables, policies_id_seq, history, times>>

\* ------------------------------------------------------------------ GET /recent/
\* A cutoff that leaves out the policies proposed exactly at it.
RecentAfter(row, cutoff_date) ==
  row["proposed_date"] # None /\ row["proposed_date"][1] > cutoff_date

\* Policy.proposed_date >= cutoff_date: NULL is not >= anything.
Recent(row, cutoff_date) ==
  row["proposed_date"] # None /\ row["proposed_date"][1] >= cutoff_date

\* now is datetime.utcnow() at the time of the request, in days.
get_recent_policies(r, days, limit, now, order) ==
  /\ Free(r)
  /\ order \in ScanOrders({i \in DOMAIN policies : Recent(policies[i], now - days)})
  /\ DescNotNull(order, "proposed_date")
  /\ LET p == [Begin("get_recent_policies", 0, NoBody)
                 EXCEPT !.query = [days |-> days, limit |-> limit, now |-> now]]
         page == Limit(order, limit)
     IN req' = [req EXCEPT ![r] =
                  IF ~InRange(days, 1, DaysMax) \/ ~InRange(limit, 1, RankLimitMax)
                  THEN Answer(p, 422, None)
                  ELSE Answer(p, 200,
                         Some([k \in 1..Len(page) |->
                                 PolicyResponse(page[k], policies[page[k]])]))]
  /\ UNCHANGED <<tables, company_tables, policies_id_seq, history, times>>

\* ------------------------------------------------------------------ GET /companies
\* if industry: ... Company.industry == industry
\* if country: ... Company.headquarters_country == country
CompanyWhere(row, q) ==
  /\ TruthyStr(q.industry) => row["industry"] = q.industry[1]
  /\ TruthyStr(q.country) => row["headquarters_country"] = q.country[1]

\* response_model=CompanySchema
CompanyResponse(id, row) ==
  [id |-> Some(id), name |-> row["name"], industry |-> row["industry"],
   headquarters_country |-> row["headquarters_country"]]

get_companies(r, q, scan) ==
  /\ Free(r)
  /\ LET p == [Begin("get_companies", 0, NoBody) EXCEPT !.query = q]
         Match(company_id) == CompanyWhere(companies[company_id], q)
         page == OffsetLimit(SelectSeq(scan, Match), q.skip, q.limit)
     IN req' = [req EXCEPT ![r] =
                  IF ~ValidPage(q)
                  THEN Answer(p, 422, None)
                  ELSE Answer(p, 200,
                         Some([k \in 1..Len(page) |->
                                 CompanyResponse(page[k], companies[page[k]])]))]
  /\ UNCHANGED <<tables, company_tables, policies_id_seq, history, times>>

\* ------------------------------------------------------------------ GET /{policy_id}/changes
\* The rows of a child table in some order the database returns them in.
RowOrders(rows) ==
  {o \in [1..Cardinality(rows) -> rows] :
     \A a, b \in 1..Cardinality(rows) : a # b => o[a] # o[b]}

\* A handler that looks the policy up first and raises 404 without it.
get_policy_changes_checked(r, policy_id, order) ==
  /\ Free(r)
  /\ order \in RowOrders(ChildrenOf(policy_changes, policy_id))
  /\ LET q == Begin("get_policy_changes", policy_id, NoBody)
     IN req' = [req EXCEPT ![r] =
                  IF First(policy_id) = None THEN Answer(q, 404, None)
                  ELSE Answer(q, 200, Some(order))]
  /\ UNCHANGED <<tables, company_tables, policies_id_seq, history, times>>

\* db.query(PolicyChange).filter(PolicyChange.policy_id == policy_id).all()
get_policy_changes(r, policy_id, order) ==
  /\ Free(r)
  /\ order \in RowOrders(ChildrenOf(policy_changes, policy_id))
  /\ req' = [req EXCEPT ![r] =
               Answer(Begin("get_policy_changes", policy_id, NoBody), 200,
                      Some(order))]
  /\ UNCHANGED <<tables, company_tables, policies_id_seq, history, times>>

\* ------------------------------------------------------------------ GET /companies/{company_id}
get_company(r, company_id) ==
  /\ Free(r)
  /\ LET q == Begin("get_company", company_id, NoBody)
     IN req' = [req EXCEPT ![r] =
                  IF company_id \notin DOMAIN companies
                  THEN Answer(q, 404, None)
                  ELSE Answer(q, 200,
                         Some(CompanyResponse(company_id, companies[company_id])))]
  /\ UNCHANGED <<tables, company_tables, policies_id_seq, history, times>>

\* db.query(CompanyProfile).filter(CompanyProfile.company_id == company_id).first()
get_company_profile(r, company_id, profile) ==
  /\ Free(r)
  /\ LET q == Begin("get_company_profile", company_id, NoBody)
         profiles == {c \in company_profiles : c.company_id = company_id}
     IN /\ profiles # {} => profile \in profiles
        /\ profiles = {} => profile = None
        /\ req' = [req EXCEPT ![r] =
                     IF profiles = {} THEN Answer(q, 404, None)
                     ELSE Answer(q, 200, Some(profile))]
  /\ UNCHANGED <<tables, company_tables, policies_id_seq, history, times>>

\* .filter(FinancialMetrics.company_id == company_id)
\* .order_by(FinancialMetrics.date.desc()).offset(skip).limit(limit).all()
get_company_financial_metrics(r, company_id, pg, order) ==
  /\ Free(r)
  /\ order \in RowOrders({m \in financial_metrics : m.company_id = company_id})
  /\ \A a, b \in 1..Len(order) : a < b => order[a].date >= order[b].date
  /\ LET q == [Begin("get_company_financial_metrics", company_id, NoBody)
                 EXCEPT !.query = pg]
     IN req' = [req EXCEPT ![r] =
                  IF ~ValidPage(pg) THEN Answer(q, 422, None)
                  ELSE Answer(q, 200, Some(OffsetLimit(order, pg.skip, pg.limit)))]
  /\ UNCHANGED <<tables, company_tables, policies_id_seq, history, times>>

\* ------------------------------------------------------------------ GET /analytics/summary
\* A loaded status compared with == to the str of its name, as if
\* PolicyStatus were a str enum.
MemberEqualsName(member, string) == member = string

\* p.status == "ENACTED": p.status is a member of PolicyStatus, a plain
\* enum.Enum, and a member of a plain Enum equals no str.
MemberEqualsStr(member, string) == FALSE

RECURSIVE SumSeq(_)
SumSeq(xs) == IF xs = <<>> THEN 0 ELSE Head(xs) + SumSeq(Tail(xs))

\* counts[key] = counts.get(key, 0) + 1 on a dict, which keeps its keys in
\* the order of their first insertion: a sequence of <<key, count>>.
Increment(counts, key) ==
  IF \E k \in 1..Len(counts) : counts[k][1] = key
  THEN [k \in 1..Len(counts) |->
          IF counts[k][1] = key THEN <<key, counts[k][2] + 1>> ELSE counts[k]]
  ELSE Append(counts, <<key, 1>>)

RECURSIVE CountKeys(_, _)
CountKeys(keys, counts) ==
  IF keys = <<>> THEN counts
  ELSE CountKeys(Tail(keys), Increment(counts, Head(keys)))

\* The tags of the policies in order; `if policy.affected_industries:` skips
\* None and the empty list.
RECURSIVE Tags(_)
Tags(rows) ==
  IF rows = <<>> THEN <<>>
  ELSE (IF Head(rows)["affected_industries"] = None THEN <<>>
        ELSE Head(rows)["affected_industries"][1]) \o Tags(Tail(rows))

\* The mean taken over all the policies instead of those with a value.
AverageOverAll(rows) ==
  LET impacts == SelectSeq([k \in 1..Len(rows) |-> rows[k]["estimated_impact"]],
                           LAMBDA x : x # None)
  IN IF impacts = <<>> THEN 0
     ELSE [sum |-> SumSeq([k \in 1..Len(impacts) |-> impacts[k][1]]),
           len |-> Len(rows)]

\* sum(impacts) / len(impacts) if impacts else 0: the quotient is kept as
\* its two terms.
Average(rows) ==
  LET impacts == SelectSeq([k \in 1..Len(rows) |-> rows[k]["estimated_impact"]],
                           LAMBDA x : x # None)
  IN IF impacts = <<>> THEN 0
     ELSE [sum |-> SumSeq([k \in 1..Len(impacts) |-> impacts[k][1]]),
           len |-> Len(impacts)]

\* A breakdown that counts a policy once however many tags it has.
IndustryCountsPerPolicy(rows) ==
  CountKeys(SelectSeq([k \in 1..Len(rows) |->
                         IF rows[k]["affected_industries"] \in {None, Some(<<>>)}
                         THEN "" ELSE rows[k]["affected_industries"][1][1]],
                      LAMBDA x : x # ""), <<>>)

IndustryCounts(rows) == CountKeys(Tags(rows), <<>>)

\* A breakdown with its keys sorted instead of in insertion order.
JurisdictionCountsFixed(rows) ==
  LET counts == CountKeys([k \in 1..Len(rows) |-> rows[k]["jurisdiction"]], <<>>)
  IN IF Len(counts) = 2 /\ counts[1][1] = "US" THEN <<counts[2], counts[1]>>
     ELSE counts

JurisdictionCounts(rows) ==
  CountKeys([k \in 1..Len(rows) |-> rows[k]["jurisdiction"]], <<>>)

\* The WHERE clause of the summary.
SummaryWhere(row, q) ==
  /\ TruthyStr(q.jurisdiction) => row["jurisdiction"] = q.jurisdiction[1]
  /\ q.start_date # None =>
       /\ row["proposed_date"] # None
       /\ row["proposed_date"][1] >= q.start_date[1]
  /\ q.end_date # None =>
       /\ row["proposed_date"] # None
       /\ row["proposed_date"][1] <= q.end_date[1]

get_policy_analytics_summary(r, q, scan) ==
  /\ Free(r)
  /\ LET Match(policy_id) == SummaryWhere(policies[policy_id], q)
         ids == SelectSeq(scan, Match)
         rows == [k \in 1..Len(ids) |-> policies[ids[k]]]
         Enacted(row) == MemberEqualsStr(row["status"], "ENACTED")
         Proposed(row) == MemberEqualsStr(row["status"], "PROPOSED")
         p == [Begin("get_policy_analytics_summary", 0, NoBody)
                 EXCEPT !.query = [jurisdiction |-> q.jurisdiction,
                                   start_date |-> q.start_date,
                                   end_date |-> q.end_date, policies |-> ids]]
     IN req' = [req EXCEPT ![r] =
                  Answer(p, 200,
                    Some([total_policies |-> Len(rows),
                          enacted_policies |-> Len(SelectSeq(rows, Enacted)),
                          proposed_policies |-> Len(SelectSeq(rows, Proposed)),
                          average_impact |-> Average(rows),
                          jurisdiction_breakdown |-> JurisdictionCounts(rows),
                          industry_breakdown |-> IndustryCounts(rows)]))]
  /\ UNCHANGED <<tables, company_tables, policies_id_seq, history, times>>

\* ------------------------------------------------------------------ specifications
\* One server process (uvicorn.run without workers): a handler is a
\* coroutine that never awaits, so it runs from its first statement to its
\* last before the event loop takes the next request.
EventLoop == {"r1"}

\* The routes of one policy, one request after the other.
Next ==
  \/ \E r \in EventLoop, policy_id \in Ids : get_policy(r, policy_id)
  \/ \E r \in EventLoop, body \in Bodies, fault \in Faults :
        create_policy(r, body, fault)
  \/ \E r \in EventLoop : create_policy_refresh(r)
  \/ \E r \in EventLoop, policy_id \in Ids, body \in Bodies \cup {NoBody} :
        update_policy_query(r, policy_id, body)
  \/ \E r \in EventLoop, fault \in Faults : update_policy_commit(r, fault)
  \/ \E r \in EventLoop : update_policy_refresh(r)
  \/ \E r \in EventLoop, policy_id \in Ids : delete_policy_query(r, policy_id)
  \/ \E r \in EventLoop, fault \in Faults : delete_policy_commit(r, fault)

Spec == Init /\ [][Next]_vars

\* The writing routes on a database that also receives PolicyChange and
\* ImpactAssessment rows.
ChildBodies == {BaseBody, FullBody}

ChildNext ==
  \/ \E r \in EventLoop, body \in ChildBodies, fault \in Faults :
        create_policy(r, body, fault)
  \/ \E r \in EventLoop : create_policy_refresh(r)
  \/ \E r \in EventLoop, policy_id \in Ids, body \in ChildBodies :
        update_policy_query(r, policy_id, body)
  \/ \E r \in EventLoop, fault \in Faults : update_policy_commit(r, fault)
  \/ \E r \in EventLoop : update_policy_refresh(r)
  \/ \E r \in EventLoop, policy_id \in Ids : delete_policy_query(r, policy_id)
  \/ \E r \in EventLoop, fault \in Faults : delete_policy_commit(r, fault)
  \/ \E policy_id \in Ids : insert_policy_change(policy_id)
  \/ \E policy_id \in Ids : insert_impact_assessment(policy_id)

ChildSpec == Init /\ [][ChildNext]_vars

\* Several server processes on one database: the handlers of two requests
\* interleave statement by statement.
OverlapBodies == {BaseBody, FullBody}

OverlapNext ==
  \/ \E r \in Requests, body \in OverlapBodies : create_policy(r, body, "none")
  \/ \E r \in Requests : create_policy_refresh(r)
  \/ \E r \in Requests, policy_id \in Ids :
        update_policy_query(r, policy_id, BaseBody)
  \/ \E r \in Requests : update_policy_commit(r, "none")
  \/ \E r \in Requests : update_policy_refresh(r)
  \/ \E r \in Requests, policy_id \in Ids : delete_policy_query(r, policy_id)
  \/ \E r \in Requests : delete_policy_commit(r, "none")

OverlapSpec == Init /\ [][OverlapNext]_vars

\* The listings, read from a table that POSTs of the seeds have filled and
\* DELETEs have thinned.
ListInit ==
  \E kept \in SUBSET (1..Len(Seeds)) :
     /\ policies = [i \in kept |-> DictExcludeId(PolicySchema(Seeds[i]))]
     /\ policies_id_seq = Len(Seeds) + 1
     /\ policy_changes = {}
     /\ impact_assessments = {}
     /\ req = [r \in Requests |-> Idle]
     /\ created = [i \in 1..Len(Seeds) |-> Seeds[i]]
     /\ updated = {}
     /\ deleted = (1..Len(Seeds)) \ kept
     /\ companies = <<>>
     /\ company_profiles = {}
     /\ financial_metrics = {}
     /\ clock = 0
     /\ stamps = [i \in DOMAIN policies |-> Inserted(0)]

\* A listing changes no table: one listing per behaviour reaches every answer.
ListNext ==
  \E r \in EventLoop :
     /\ req[r].pc = "idle"
     /\ \E q \in Queries, scan \in ScanOrders(DOMAIN policies) :
           get_policies(r, q, scan)

ListSpec == ListInit /\ [][ListNext]_vars

\* The listings that take skip and limit, read from seeded tables.
PageQueries ==
  {q \in Queries : /\ q.industry = None /\ q.status = None /\ q.category_id = None
                   /\ q.start_date = None /\ q.end_date = None
                   /\ q.jurisdiction # Some("")}

SearchQueries ==
  { [q |-> t, skip |-> pg.skip, limit |-> pg.limit] :
      t \in SearchTerms, pg \in Pages }

PageInit ==
  \E kept \in SUBSET (1..Len(Seeds)), n \in 0..Len(CompanySeeds) :
     /\ policies = [i \in kept |-> DictExcludeId(PolicySchema(Seeds[i]))]
     /\ policies_id_seq = Len(Seeds) + 1
     /\ policy_changes = {}
     /\ impact_assessments = {}
     /\ req = [r \in Requests |-> Idle]
     /\ created = [i \in 1..Len(Seeds) |-> Seeds[i]]
     /\ updated = {}
     /\ deleted = (1..Len(Seeds)) \ kept
     /\ companies = [i \in 1..n |-> CompanySeeds[i]]
     /\ company_profiles = {}
     /\ financial_metrics = {}
     /\ clock = 0
     /\ stamps = [i \in DOMAIN policies |-> Inserted(0)]

page_policies(r) ==
  /\ req[r].pc = "idle"
  /\ \E q \in PageQueries, scan \in ScanOrders(DOMAIN policies) :
        get_policies(r, q, scan)

page_search(r) ==
  /\ req[r].pc = "idle"
  /\ \E q \in SearchQueries, scan \in ScanOrders(DOMAIN policies) :
        search_policies(r, q, scan)

page_companies(r) ==
  /\ req[r].pc = "idle"
  /\ \E q \in CompanyQueries, scan \in ScanOrders(DOMAIN companies) :
        get_companies(r, q, scan)

page_high_risk(r) ==
  /\ req[r].pc = "idle"
  /\ \E limit \in RankLimits,
        order \in UNION {ScanOrders(ids) : ids \in SUBSET DOMAIN policies} :
        get_high_risk_policies(r, limit, order)

page_recent(r) ==
  /\ req[r].pc = "idle"
  /\ \E days \in RankDays, limit \in RankLimits, now \in Clock,
        order \in UNION {ScanOrders(ids) : ids \in SUBSET DOMAIN policies} :
        get_recent_policies(r, days, limit, now, order)

PageNext ==
  \/ \E r \in EventLoop : page_policies(r)
  \/ \E r \in EventLoop : page_search(r)
  \/ \E r \in EventLoop : page_companies(r)
  \/ \E r \in EventLoop : page_high_risk(r)
  \/ \E r \in EventLoop : page_recent(r)

PageSpec == PageInit /\ [][PageNext]_vars

\* The single-entity and the collection lookups, read from seeded tables.
LookupInit ==
  \E kept \in SUBSET (1..2), n \in 0..2 :
     /\ policies = [i \in kept |-> DictExcludeId(PolicySchema(Seeds[i]))]
     /\ policies_id_seq = 3
     /\ policy_changes \in SUBSET ChangeSeeds
     /\ ChildConstraints(policy_changes, policies)
     /\ impact_assessments = {}
     /\ req = [r \in Requests |-> Idle]
     /\ created = [i \in 1..2 |-> Seeds[i]]
     /\ updated = {}
     /\ deleted = (1..2) \ kept
     /\ companies = [i \in 1..n |-> CompanySeeds[i]]
     /\ company_profiles \in SUBSET ProfileSeeds
     /\ financial_metrics \in SUBSET MetricSeeds
     /\ clock = 0
     /\ stamps = [i \in DOMAIN policies |-> Inserted(0)]
     /\ \A c \in company_profiles \cup financial_metrics : c.company_id \in 1..n

lookup_policy(r) ==
  /\ req[r].pc = "idle"
  /\ \E policy_id \in LookupIds : get_policy(r, policy_id)

lookup_policy_changes(r) ==
  /\ req[r].pc = "idle"
  /\ \E policy_id \in LookupIds, order \in RowOrders(policy_changes) \cup {<<>>}
                                            \cup {<<c>> : c \in policy_changes} :
        get_policy_changes(r, policy_id, order)

lookup_company(r) ==
  /\ req[r].pc = "idle"
  /\ \E company_id \in LookupIds : get_company(r, company_id)

lookup_company_profile(r) ==
  /\ req[r].pc = "idle"
  /\ \E company_id \in LookupIds, profile \in company_profiles \cup {None} :
        get_company_profile(r, company_id, profile)

lookup_financial_metrics(r) ==
  /\ req[r].pc = "idle"
  /\ \E company_id \in LookupIds, pg \in Pages,
        order \in RowOrders(financial_metrics) \cup {<<>>}
                    \cup {<<m>> : m \in financial_metrics} :
        get_company_financial_metrics(r, company_id, pg, order)

LookupNext ==
  \/ \E r \in EventLoop : lookup_policy(r)
  \/ \E r \in EventLoop : lookup_policy_changes(r)
  \/ \E r \in EventLoop : lookup_company(r)
  \/ \E r \in EventLoop : lookup_company_profile(r)
  \/ \E r \in EventLoop : lookup_financial_metrics(r)
  \/ \E r \in EventLoop : page_policies(r)
  \/ \E r \in EventLoop : page_companies(r)

LookupSpec == LookupInit /\ [][LookupNext]_vars

\* The summary and the ranked listings, read from a table that POSTs of
\* RankSeeds have filled and DELETEs have thinned.
RankInit ==
  \E kept \in SUBSET (1..Len(RankSeeds)) :
     /\ policies = [i \in kept |-> DictExcludeId(PolicySchema(RankSeeds[i]))]
     /\ policies_id_seq = Len(RankSeeds) + 1
     /\ policy_changes = {}
     /\ impact_assessments = {}
     /\ req = [r \in Requests |-> Idle]
     /\ created = [i \in 1..Len(RankSeeds) |-> RankSeeds[i]]
     /\ updated = {}
     /\ deleted = (1..Len(RankSeeds)) \ kept
     /\ companies = <<>>
     /\ company_profiles = {}
     /\ financial_metrics = {}
     /\ clock = 0
     /\ stamps = [i \in DOMAIN policies |-> Inserted(0)]

summary(r) ==
  /\ req[r].pc = "idle"
  /\ \E q \in SummaryQueries, scan \in ScanOrders(DOMAIN policies) :
        get_policy_analytics_summary(r, q, scan)

SummaryNext == \E r \in EventLoop : summary(r)

SummarySpec == RankInit /\ [][SummaryNext]_vars

RankNext ==
  \/ \E r \in EventLoop : page_high_risk(r)
  \/ \E r \in EventLoop : page_recent(r)

RankSpec == RankInit /\ [][RankNext]_vars

\* ------------------------------------------------------------------ properties
\* In this step slot r takes a new request and runs its first statement.
Arrives(r) == Free(r) /\ req'[r] # req[r]

\* The policy as a client reads it after sending `body`: the value of every
\* field the body carries, the schema default of every field it omits.
Expected(policy_id, body) ==
  [f \in SchemaFields |->
     IF f = "id" THEN Some(policy_id)
     ELSE IF f \in DOMAIN body THEN body[f]
     ELSE IF f = "status" THEN "draft"
     ELSE None]

\* The ids a POST has created and no DELETE has removed since.
Live == DOMAIN created \ deleted

\* C1: a policy id goes nonexistent -> existing -> nonexistent.  A request
\* on /policies/{id} finds the policy exactly when a POST has created that
\* id and no DELETE of it has succeeded since: GET then answers 200 with the
\* policy of that id, and otherwise GET, PUT and DELETE answer 404 (a PUT
\* whose body the schema rejects is answered 422 before any lookup).
C1_Lifecycle ==
  [][\A r \in Requests :
       (/\ Arrives(r)
        /\ req'[r].kind \in {"get_policy", "update_policy", "delete_policy"}
        /\ req'[r].status # 422)
       => IF req'[r].policy_id \in Live
          THEN /\ req'[r].status # 404
               /\ req'[r].kind = "get_policy" =>
                    /\ req'[r].status = 200
                    /\ req'[r].response # None
                    /\ req'[r].response[1]["id"] = Some(req'[r].policy_id)
          ELSE /\ req'[r].status = 404
               /\ req'[r].pc = "done"]_vars

\* C1 witness: a GET, PUT or DELETE answered 404 for an id that a POST
\* created and a DELETE removed.
C1_Witness ==
  \E r \in Requests :
     /\ req[r].pc = "done"
     /\ req[r].kind \in {"get_policy", "update_policy", "delete_policy"}
     /\ req[r].status = 404
     /\ req[r].policy_id \in DOMAIN created
     /\ req[r].policy_id \in deleted

\* C2: a GET of a policy that no PUT has changed since its POST answers
\* with the fields of the POST's body, the schema defaults (status DRAFT,
\* null elsewhere) for the fields the body omitted, and the assigned id.
C2_RoundTrip ==
  \A r \in Requests :
     (/\ req[r].kind = "get_policy"
      /\ req[r].pc = "done"
      /\ req[r].status = 200
      /\ req[r].policy_id \notin updated)
     => req[r].response = Some(Expected(req[r].policy_id,
                                         created[req[r].policy_id]))

\* C2 witness: such a GET of a policy whose POST omitted status, and one of
\* a policy whose POST carried an id other than the one assigned.
C2_Witness ==
  \E r \in Requests :
     /\ req[r].kind = "get_policy"
     /\ req[r].pc = "done"
     /\ req[r].status = 200
     /\ req[r].policy_id \notin updated
     /\ \/ "status" \notin DOMAIN created[req[r].policy_id]
        \/ /\ "id" \in DOMAIN created[req[r].policy_id]
           /\ created[req[r].policy_id]["id"] # Some(req[r].policy_id)

\* C3: after a PUT answered 200 the stored policy holds, in every field
\* other than id, the value of the PUT's body or the schema default where
\* the body omits the field, and it is still stored under the path id.
C3_Overwrite ==
  \A r \in Requests :
     (/\ req[r].kind = "update_policy"
      /\ req[r].pc = "done"
      /\ req[r].status = 200)
     => /\ req[r].policy_id \in DOMAIN policies
        /\ PolicyResponse(req[r].policy_id, policies[req[r].policy_id])
             = Expected(req[r].policy_id, req[r].body)
        /\ req[r].response = Some(Expected(req[r].policy_id, req[r].body))

\* C3 witness: a PUT answered 200 whose body omits a field that the loaded
\* row held a value in, and carries an id other than the path id.
C3_Witness ==
  \E r \in Requests :
     /\ req[r].kind = "update_policy"
     /\ req[r].pc = "done"
     /\ req[r].status = 200
     /\ \E f \in Fields \ DOMAIN req[r].body :
          req[r].db_policy[1][f] # SchemaDefault(f)
     /\ "id" \in DOMAIN req[r].body
     /\ req[r].body["id"] # Some(req[r].policy_id)

\* The step in which the POST of slot r commits its INSERT.
CreateCommits(r) ==
  /\ Arrives(r)
  /\ req'[r].kind = "create_policy"
  /\ req'[r].pc = "refresh"

\* C4: the id a POST creates a policy under is the server's, never the
\* body's: it is the next value of the sequence, it is the id of no policy
\* that exists or ever existed, and it is greater than every id assigned
\* before.
C4_ServerAssignedId ==
  [][\A r \in Requests :
       CreateCommits(r) =>
         /\ req'[r].policy_id = policies_id_seq
         /\ req'[r].policy_id \notin DOMAIN created
         /\ req'[r].policy_id \notin DOMAIN policies
         /\ \A id \in DOMAIN created : req'[r].policy_id > id
         /\ DOMAIN policies' = DOMAIN policies \cup {req'[r].policy_id}]_vars

\* C4 witness: a policy created after the deletion of an earlier one, by a
\* POST whose body carried the id of the deleted policy.
C4_Witness ==
  \E id \in DOMAIN policies :
     /\ "id" \in DOMAIN created[id]
     /\ created[id]["id"] # Some(id)
     /\ created[id]["id"][1] \in deleted

\* C5: a PUT or DELETE whose id matches no stored policy is answered 404 at
\* its lookup and changes no table (a PUT whose body the schema rejects
\* is answered 422).
C5_MissingIs404 ==
  [][\A r \in Requests :
       (/\ Arrives(r)
        /\ req'[r].kind \in {"update_policy", "delete_policy"}
        /\ req'[r].policy_id \notin DOMAIN policies
        /\ req'[r].status # 422)
       => /\ req'[r].status = 404
          /\ req'[r].pc = "done"
          /\ policies' = policies
          /\ policy_changes' = policy_changes
          /\ impact_assessments' = impact_assessments]_vars

\* C5 witness: a PUT with a valid body answered 404 while another policy is
\* stored.
C5_Witness ==
  \E r \in Requests :
     /\ req[r].kind = "update_policy"
     /\ req[r].pc = "done"
     /\ req[r].status = 404
     /\ req[r].body # NoBody
     /\ req[r].policy_id \notin DOMAIN policies
     /\ DOMAIN policies # {}

\* The step in which the commit of the POST, PUT or DELETE of slot r fails.
CommitFails(r) ==
  /\ req'[r].kind \in {"create_policy", "update_policy", "delete_policy"}
  /\ req'[r].status = 500
  /\ req[r].status # 500 \/ Free(r)
  /\ req'[r] # req[r]

\* C6: when the commit of a POST, PUT or DELETE fails the handler has rolled
\* back by the time it answers 500, and no table differs from what it was
\* before the commit.
C6_RollbackOnFailure ==
  [][\A r \in Requests :
       CommitFails(r) =>
         /\ req'[r].rollback
         /\ req'[r].pc = "done"
         /\ policies' = policies
         /\ policy_changes' = policy_changes
         /\ impact_assessments' = impact_assessments]_vars

\* C6 witness: a PUT answered 500 after its lookup found the policy, with
\* the policy still holding the loaded values.
C6_Witness ==
  \E r \in Requests :
     /\ req[r].kind = "update_policy"
     /\ req[r].pc = "done"
     /\ req[r].status = 500
     /\ req[r].body # NoBody
     /\ req[r].rollback
     /\ req[r].policy_id \in DOMAIN policies
     /\ Some(policies[req[r].policy_id]) = req[r].db_policy

\* The step in which the PUT or DELETE of slot r runs its commit.
Commits(r, kind) ==
  /\ req[r].kind = kind
  /\ req[r].pc = "commit"
  /\ req'[r].pc # "commit"

\* Some stored policy other than `except` holds this policy_number.
NumberTaken(number, except) ==
  \E i \in DOMAIN policies \ except : policies[i]["policy_number"] = number

\* C7: no two stored policies ever share a policy_number.  A POST whose
\* policy_number a stored policy holds, and a PUT that would change the
\* policy_number of its policy to one another stored policy holds, are
\* answered 500 and leave the table as it was, whatever other request is
\* in flight.
C7_UniquePolicyNumber ==
  [][/\ \A i, j \in DOMAIN policies' :
          i # j => policies'[i]["policy_number"] # policies'[j]["policy_number"]
     /\ \A r \in Requests :
          /\ (/\ Arrives(r)
              /\ req'[r].kind = "create_policy"
              /\ req'[r].status # 422
              /\ NumberTaken(req'[r].body["policy_number"], {}))
             => req'[r].status = 500 /\ policies' = policies
          /\ (/\ Commits(r, "update_policy")
              /\ req[r].body # NoBody
              /\ req[r].body["policy_number"] # req[r].db_policy[1]["policy_number"]
              /\ NumberTaken(req[r].body["policy_number"], {req[r].policy_id}))
             => req'[r].status = 500 /\ policies' = policies]_vars

\* C7 witness: two policies are stored, one request has been answered 500
\* for a policy_number that the other policy holds, and the other request
\* is between its lookup and its commit.
C7_Witness ==
  \E r, o \in Requests :
     /\ r # o
     /\ req[r].pc = "done"
     /\ req[r].status = 500
     /\ req[r].kind \in {"create_policy", "update_policy"}
     /\ NumberTaken(req[r].body["policy_number"], {req[r].policy_id})
     /\ Cardinality(DOMAIN policies) = 2
     /\ req[o].pc = "commit"

\* A PolicyChange or ImpactAssessment row references this policy.
Referenced(policy_id) ==
  ChildrenOf(policy_changes, policy_id) \cup
    ChildrenOf(impact_assessments, policy_id) # {}

C9_ReferentialIntegrity ==
  \A c \in policy_changes \cup impact_assessments :
     /\ c.policy_id # None
     /\ c.policy_id[1] \in DOMAIN policies

\* C9 witness: a DELETE has run its commit on a policy that a PolicyChange
\* row and an ImpactAssessment row reference.
C9_Witness ==
  \E r \in Requests :
     /\ req[r].kind = "delete_policy"
     /\ req[r].pc = "done"
     /\ req[r].db_policy # None
     /\ ChildrenOf(policy_changes, req[r].policy_id) # {}
     /\ ChildrenOf(impact_assessments, req[r].policy_id) # {}

\* The ids of the policies a listing answered with, in the order of the page.
PageIds(response) == [k \in 1..Len(response[1]) |-> response[1][k]["id"][1]]

\* What the claim takes a request's filters to select: every parameter the
\* request carries constrains, by equality, membership or date bound.
Selected(q) ==
  {i \in DOMAIN policies :
     /\ q.jurisdiction # None => policies[i]["jurisdiction"] = q.jurisdiction[1]
     /\ q.status # None => policies[i]["status"] = q.status[1]
     /\ q.category_id # None => policies[i]["category_id"] = q.category_id
     /\ q.industry # None =>
          /\ policies[i]["affected_industries"] # None
          /\ \E k \in 1..Len(policies[i]["affected_industries"][1]) :
                policies[i]["affected_industries"][1][k] = q.industry[1]
     /\ q.start_date # None =>
          /\ policies[i]["proposed_date"] # None
          /\ q.start_date[1] <= policies[i]["proposed_date"][1]
     /\ q.end_date # None =>
          /\ policies[i]["proposed_date"] # None
          /\ policies[i]["proposed_date"][1] <= q.end_date[1]}

\* A listing answered with a page that pagination did not cut.
WholeListing(r) ==
  /\ req[r].kind = "get_policies"
  /\ req[r].pc = "done"
  /\ req[r].status = 200
  /\ req[r].query.skip = 0
  /\ req[r].query.limit >= Cardinality(DOMAIN policies)

\* C10: GET / selects exactly the policies that satisfy every filter the
\* request carries: jurisdiction, status and category_id by equality,
\* industry by membership in affected_industries, start_date <=
\* proposed_date <= end_date; a parameter the request omits constrains
\* nothing.
C10_FiltersConjoined ==
  \A r \in Requests :
     WholeListing(r) =>
       {PageIds(req[r].response)[k] : k \in 1..Len(req[r].response[1])}
         = Selected(req[r].query)

\* C10, for the requests whose every supplied filter is non-empty and
\* non-zero: the same selection.
C10_TruthyFiltersConjoined ==
  \A r \in Requests :
     (/\ WholeListing(r)
      /\ req[r].query.jurisdiction # Some("")
      /\ req[r].query.industry # Some("")
      /\ req[r].query.status # Some("")
      /\ req[r].query.category_id # Some(0))
     => {PageIds(req[r].response)[k] : k \in 1..Len(req[r].response[1])}
          = Selected(req[r].query)

\* The listings that take skip and limit.
Listings == {"get_policies", "search_policies", "get_companies"}

\* The ids of the rows that match the filters of the listing in slot r.
Matching(r) ==
  CASE req[r].kind = "get_policies" ->
         {i \in DOMAIN policies : Where(policies[i], req[r].query)}
    [] req[r].kind = "search_policies" ->
         {i \in DOMAIN policies : SearchWhere(policies[i], req[r].query.q)}
    [] req[r].kind = "get_companies" ->
         {i \in DOMAIN companies : CompanyWhere(companies[i], req[r].query)}

\* A listing answered with a page.
Paged(r) ==
  /\ req[r].kind \in Listings
  /\ req[r].pc = "done"
  /\ req[r].status = 200

\* C11: a listing with 0 <= skip and 1 <= limit <= 1000 returns matching
\* records, none twice, and as many as follow the first skip of them up to
\* limit: min(limit, max(0, matching - skip)).
C11_Pagination ==
  \A r \in Requests :
     Paged(r) =>
       LET page == PageIds(req[r].response)
           n == Cardinality(Matching(r))
           rest == IF n > req[r].query.skip THEN n - req[r].query.skip ELSE 0
       IN /\ Len(page) <= req[r].query.limit
          /\ Len(page) = IF rest < req[r].query.limit THEN rest
                         ELSE req[r].query.limit
          /\ \A k \in 1..Len(page) : page[k] \in Matching(r)
          /\ \A k, l \in 1..Len(page) : k # l => page[k] # page[l]

\* C11 witness: a page of limit records, cut at both ends: one matching
\* record skipped before it and at least one left after it.
C11_Witness ==
  \E r \in Requests :
     /\ Paged(r)
     /\ req[r].kind = "search_policies"
     /\ req[r].query.skip = 1
     /\ Len(req[r].response[1]) = req[r].query.limit
     /\ Cardinality(Matching(r)) > req[r].query.skip + req[r].query.limit

\* The parameters of the listing in slot r are outside the declared bounds.
OutOfBounds(r) ==
  CASE req[r].kind \in Listings ->
         \/ req[r].query.skip < 0
         \/ req[r].query.limit < 1
         \/ req[r].query.limit > LimitMax
    [] req[r].kind = "get_high_risk_policies" ->
         req[r].query.limit < 1 \/ req[r].query.limit > RankLimitMax
    [] req[r].kind = "get_recent_policies" ->
         req[r].query.limit < 1 \/ req[r].query.limit > RankLimitMax
    [] OTHER -> FALSE

\* C12: a listing whose skip is negative or whose limit is outside the
\* bounds its endpoint declares is answered 422 and carries no page.
C12_BoundsRejected ==
  \A r \in Requests :
     (req[r].pc = "done" /\ OutOfBounds(r))
     => req[r].status = 422 /\ req[r].response = None

\* C12 witness: /recent/ rejected for a limit of 501, its days in range and
\* the table not empty.
C12_Witness ==
  \E r \in Requests :
     /\ req[r].pc = "done"
     /\ req[r].kind = "get_recent_policies"
     /\ req[r].query.limit = RankLimitMax + 1
     /\ req[r].query.days \in 1..DaysMax
     /\ req[r].status = 422
     /\ DOMAIN policies # {}

\* C13: GET /policies with a status that is neither the name nor the value
\* of one of the seven statuses is answered with a validation error (422),
\* not with a 500 and not with a page.
C13_InvalidStatusRejected ==
  \A r \in Requests :
     (/\ req[r].kind = "get_policies"
      /\ req[r].pc = "done"
      /\ ValidPage(req[r].query)
      /\ TruthyStr(req[r].query.status)
      /\ req[r].query.status[1] \notin DOMAIN PolicyStatus
      /\ req[r].query.status[1] \notin EnumValues(PolicyStatus))
     => req[r].status = 422

\* The rows the lookup in slot r asks for.
Found(r) ==
  CASE req[r].kind = "get_policy" ->
         {i \in DOMAIN policies : i = req[r].policy_id}
    [] req[r].kind = "get_company" ->
         {i \in DOMAIN companies : i = req[r].policy_id}
    [] req[r].kind = "get_company_profile" ->
         {c \in company_profiles : c.company_id = req[r].policy_id}
    [] req[r].kind = "get_policy_changes" ->
         ChildrenOf(policy_changes, req[r].policy_id)
    [] req[r].kind = "get_company_financial_metrics" ->
         {m \in financial_metrics : m.company_id = req[r].policy_id}
    [] req[r].kind \in {"get_policies", "get_companies"} -> Matching(r)

SingleLookups == {"get_policy", "get_company", "get_company_profile"}

CollectionLookups ==
  {"get_policies", "get_companies", "get_policy_changes",
   "get_company_financial_metrics"}

\* C14: a single-entity lookup answers 404 exactly when no row matches; a
\* collection lookup with valid parameters answers 200 with a list, the
\* empty list when no row matches, whether or not the parent of the path
\* exists.
C14_NotFoundVsEmpty ==
  \A r \in Requests :
     req[r].pc = "done" =>
       /\ req[r].kind \in SingleLookups =>
            /\ Found(r) = {} <=> req[r].status = 404
            /\ Found(r) # {} => req[r].status = 200 /\ req[r].response # None
       /\ (req[r].kind \in CollectionLookups /\ req[r].status # 422) =>
            /\ req[r].status = 200
            /\ req[r].response # None
            /\ Found(r) = {} => req[r].response = Some(<<>>)

\* C14 witness: the changes of a policy id that is not stored, answered 200
\* with the empty list, while GET of the same id would be a 404.
C14_Witness ==
  \E r \in Requests :
     /\ req[r].pc = "done"
     /\ req[r].kind = "get_policy_changes"
     /\ req[r].policy_id \notin DOMAIN policies
     /\ req[r].status = 200
     /\ req[r].response = Some(<<>>)
     /\ policy_changes # {}

\* A summary answered in slot r.
Summarised(r) ==
  /\ req[r].kind = "get_policy_analytics_summary"
  /\ req[r].pc = "done"
  /\ req[r].status = 200

\* The ids of the filtered set of the summary in slot r, in its order.
Filtered(r) == req[r].query.policies

\* C15: total_policies is the size of the filtered set, enacted_policies
\* the number of those with status ENACTED, proposed_policies the number
\* of those with status PROPOSED.
C15_StatusCounts ==
  \A r \in Requests :
     Summarised(r) =>
       LET ids == {Filtered(r)[k] : k \in 1..Len(Filtered(r))}
           summary_ == req[r].response[1]
       IN /\ summary_.total_policies = Cardinality(ids)
          /\ summary_.enacted_policies =
               Cardinality({i \in ids : policies[i]["status"] = "ENACTED"})
          /\ summary_.proposed_policies =
               Cardinality({i \in ids : policies[i]["status"] = "PROPOSED"})

\* The part of C15 the code keeps: total_policies is the size of the
\* filtered set, and the filtered set is the stored policies that satisfy
\* the filters.
C15_TotalCount ==
  \A r \in Requests :
     Summarised(r) =>
       /\ req[r].response[1].total_policies = Len(Filtered(r))
       /\ {Filtered(r)[k] : k \in 1..Len(Filtered(r))}
            = {i \in DOMAIN policies : SummaryWhere(policies[i], req[r].query)}

\* The filtered policies of the summary in slot r that have an
\* estimated_impact.
WithImpact(r) ==
  {Filtered(r)[k] : k \in 1..Len(Filtered(r))} \cap
    {i \in DOMAIN policies : policies[i]["estimated_impact"] # None}

RECURSIVE SumImpacts(_)
SumImpacts(ids) ==
  IF ids = {} THEN 0
  ELSE LET i == CHOOSE i \in ids : TRUE
       IN policies[i]["estimated_impact"][1] + SumImpacts(ids \ {i})

\* C16: average_impact is the sum of estimated_impact over the filtered
\* policies that have one, divided by their number, and it is the number 0
\* when there is none.
C16_AverageImpact ==
  \A r \in Requests :
     Summarised(r) =>
       req[r].response[1].average_impact =
         IF WithImpact(r) = {} THEN 0
         ELSE [sum |-> SumImpacts(WithImpact(r)),
               len |-> Cardinality(WithImpact(r))]

\* C16 witness: a summary over two policies with different impacts and one
\* without an impact; and the cases with no impact at all are summaries
\* over no policy and over policies that all lack one.
C16_Witness ==
  \E r \in Requests :
     /\ Summarised(r)
     /\ Cardinality(WithImpact(r)) >= 2
     /\ Len(Filtered(r)) > Cardinality(WithImpact(r))
     /\ \E i, j \in WithImpact(r) :
          policies[i]["estimated_impact"] # policies[j]["estimated_impact"]

\* C16, the empty case reached: a summary over policies that all lack an
\* impact answers 0.
C16_ZeroReached ==
  \E r \in Requests :
     /\ Summarised(r)
     /\ Len(Filtered(r)) > 0
     /\ WithImpact(r) = {}
     /\ req[r].response[1].average_impact = 0

\* The number of times tag occurs in the affected_industries of policy i.
Occurrences(i, tag) ==
  IF policies[i]["affected_industries"] = None THEN 0
  ELSE Cardinality({k \in 1..Len(policies[i]["affected_industries"][1]) :
                      policies[i]["affected_industries"][1][k] = tag})

RECURSIVE SumOver(_, _)
SumOver(ids, tag) ==
  IF ids = {} THEN 0
  ELSE LET i == CHOOSE i \in ids : TRUE
       IN Occurrences(i, tag) + SumOver(ids \ {i}, tag)

\* The tags the model's policies carry.
AllTags == {"energy", "technology"}

\* C17: industry_breakdown has one key per tag that occurs in the filtered
\* policies, mapped to the number of times the tag occurs across them; a
\* policy with null or empty affected_industries adds nothing, and the
\* counts sum to the number of tags of the filtered policies.
C17_IndustryBreakdown ==
  \A r \in Requests :
     Summarised(r) =>
       LET ids == {Filtered(r)[k] : k \in 1..Len(Filtered(r))}
           counts == req[r].response[1].industry_breakdown
       IN /\ \A k, l \in 1..Len(counts) : k # l => counts[k][1] # counts[l][1]
          /\ \A k \in 1..Len(counts) :
               /\ counts[k][1] \in AllTags
               /\ counts[k][2] = SumOver(ids, counts[k][1])
               /\ counts[k][2] > 0
          /\ \A tag \in AllTags :
               SumOver(ids, tag) > 0 => \E k \in 1..Len(counts) : counts[k][1] = tag
          /\ SumSeq([k \in 1..Len(counts) |-> counts[k][2]])
               = SumSeq([k \in 1..Len(Filtered(r)) |->
                           IF policies[Filtered(r)[k]]["affected_industries"] = None
                           THEN 0
                           ELSE Len(policies[Filtered(r)[k]]["affected_industries"][1])])

\* C17 witness: a summary over a policy with two different tags, a policy
\* with an empty list and a policy with null affected_industries.
C17_Witness ==
  \E r \in Requests :
     /\ Summarised(r)
     /\ Len(req[r].response[1].industry_breakdown) = 2
     /\ \E k \in 1..Len(Filtered(r)) :
          policies[Filtered(r)[k]]["affected_industries"] = None
     /\ \E k \in 1..Len(Filtered(r)) :
          policies[Filtered(r)[k]]["affected_industries"] = Some(<<>>)
     /\ \E k \in 1..Len(Filtered(r)) :
          policies[Filtered(r)[k]]["affected_industries"]
            = Some(<<"energy", "technology">>)

\* C18: jurisdiction_breakdown has one key per jurisdiction of the filtered
\* set, mapped to the number of filtered policies with it; no count is 0,
\* the counts sum to total_policies, and the keys are in the order in which
\* their jurisdictions first occur in the filtered set.
C18_JurisdictionBreakdown ==
  \A r \in Requests :
     Summarised(r) =>
       LET ids == Filtered(r)
           counts == req[r].response[1].jurisdiction_breakdown
           FirstAt(j) == CHOOSE k \in 1..Len(ids) :
                           /\ policies[ids[k]]["jurisdiction"] = j
                           /\ \A l \in 1..(k - 1) : policies[ids[l]]["jurisdiction"] # j
       IN /\ {counts[k][1] : k \in 1..Len(counts)}
               = {policies[ids[k]]["jurisdiction"] : k \in 1..Len(ids)}
          /\ \A k, l \in 1..Len(counts) : k # l => counts[k][1] # counts[l][1]
          /\ \A k \in 1..Len(counts) :
               /\ counts[k][2] > 0
               /\ counts[k][2] =
                    Cardinality({l \in 1..Len(ids) :
                                   policies[ids[l]]["jurisdiction"] = counts[k][1]})
          /\ SumSeq([k \in 1..Len(counts) |-> counts[k][2]])
               = req[r].response[1].total_policies
          /\ \A k, l \in 1..Len(counts) :
               k < l => FirstAt(counts[k][1]) < FirstAt(counts[l][1])

\* C18 witness: a summary whose filtered set starts with a US policy, goes
\* on with an EU policy and has another US policy after it.
C18_Witness ==
  \E r \in Requests :
     /\ Summarised(r)
     /\ Len(Filtered(r)) >= 3
     /\ policies[Filtered(r)[1]]["jurisdiction"] = "US"
     /\ policies[Filtered(r)[2]]["jurisdiction"] = "EU"
     /\ policies[Filtered(r)[3]]["jurisdiction"] = "US"
     /\ req[r].response[1].jurisdiction_breakdown = <<<<"US", 2>>, <<"EU", 1>>>>

\* A ranked listing answered with a page in slot r.
Ranked(r, kind) ==
  /\ req[r].kind = kind
  /\ req[r].pc = "done"
  /\ req[r].status = 200

\* C19: every policy /high-risk/ returns has estimated_impact < -100 or
\* impact_confidence < 0.6; the page is ascending by estimated_impact
\* (policies without one come last); it holds min(limit, qualifying)
\* policies, and no qualifying policy left out has a smaller
\* estimated_impact than one returned.
C19_HighRisk ==
  \A r \in Requests :
     Ranked(r, "get_high_risk_policies") =>
       LET page == PageIds(req[r].response)
           returned == {page[k] : k \in 1..Len(page)}
           qualifying == {i \in DOMAIN policies : HighRisk(policies[i])}
           Impact(i) == policies[i]["estimated_impact"]
       IN /\ returned \subseteq qualifying
          /\ Len(page) = Cardinality(returned)
          /\ Len(page) = IF Cardinality(qualifying) < req[r].query.limit
                         THEN Cardinality(qualifying) ELSE req[r].query.limit
          /\ \A k, l \in 1..Len(page) :
               k < l =>
                 /\ Impact(page[k]) = None => Impact(page[l]) = None
                 /\ (Impact(page[k]) # None /\ Impact(page[l]) # None)
                      => Impact(page[k])[1] <= Impact(page[l])[1]
          /\ \A o \in qualifying \ returned : \A i \in returned :
               /\ Impact(o) # None => (Impact(i) # None /\ Impact(i)[1] <= Impact(o)[1])

\* C19 witness: a page of two out of more qualifying policies, among them
\* one that qualifies by its confidence alone and one without an impact.
C19_Witness ==
  \E r \in Requests :
     /\ Ranked(r, "get_high_risk_policies")
     /\ req[r].query.limit = 2
     /\ Len(req[r].response[1]) = 2
     /\ Cardinality({i \in DOMAIN policies : HighRisk(policies[i])}) = 4
     /\ \E i \in DOMAIN policies :
          /\ HighRisk(policies[i])
          /\ policies[i]["estimated_impact"] = None
     /\ \E i \in DOMAIN policies : ~HighRisk(policies[i])

\* C20: every policy /recent/ returns has proposed_date >= now - days; the
\* page is descending by proposed_date; it holds min(limit, qualifying)
\* policies, and no qualifying policy left out has a later proposed_date
\* than one returned.
C20_Recent ==
  \A r \in Requests :
     Ranked(r, "get_recent_policies") =>
       LET page == PageIds(req[r].response)
           returned == {page[k] : k \in 1..Len(page)}
           cutoff == req[r].query.now - req[r].query.days
           qualifying == {i \in DOMAIN policies :
                            /\ policies[i]["proposed_date"] # None
                            /\ policies[i]["proposed_date"][1] >= cutoff}
           Date(i) == policies[i]["proposed_date"][1]
       IN /\ returned \subseteq qualifying
          /\ Len(page) = Cardinality(returned)
          /\ Len(page) = IF Cardinality(qualifying) < req[r].query.limit
                         THEN Cardinality(qualifying) ELSE req[r].query.limit
          /\ \A k, l \in 1..Len(page) : k < l => Date(page[k]) >= Date(page[l])
          /\ \A o \in qualifying \ returned : \A i \in returned : Date(i) >= Date(o)

\* C20 witness: a page of two out of three qualifying policies, with a
\* policy older than the cutoff and a policy without proposed_date stored.
C20_Witness ==
  \E r \in Requests :
     /\ Ranked(r, "get_recent_policies")
     /\ req[r].query.limit = 2
     /\ Len(req[r].response[1]) = 2
     /\ Cardinality({i \in DOMAIN policies :
                       Recent(policies[i], req[r].query.now - req[r].query.days)}) = 3
     /\ \E i \in DOMAIN policies : policies[i]["proposed_date"] = None
     /\ \E i \in DOMAIN policies :
          /\ policies[i]["proposed_date"] # None
          /\ policies[i]["proposed_date"][1] < req[r].query.now - req[r].query.days

\* q occurs in text as a substring, letter case apart.
Occurs(q, text) ==
  \E at \in 0..(Len(text) - Len(q)) :
     \A k \in 1..Len(q) : Lower(text[at + k]) = Lower(q[k])

\* q occurs in the title, the description or the content_summary of row.
OccursInRow(q, row) ==
  \/ Occurs(q, Chars[row["title"]])
  \/ row["description"] # None /\ Occurs(q, Chars[row["description"][1]])
  \/ row["content_summary"] # None /\ Occurs(q, Chars[row["content_summary"][1]])

\* A search answered with a page that pagination did not cut.
WholeSearch(r) ==
  /\ req[r].kind = "search_policies"
  /\ req[r].pc = "done"
  /\ req[r].status = 200
  /\ req[r].query.skip = 0
  /\ req[r].query.limit >= Cardinality(DOMAIN policies)

\* C21: /search/ selects exactly the policies in which q occurs as a
\* substring, letter case apart, in the title, the description or the
\* content_summary.
C21_SubstringSearch ==
  \A r \in Requests :
     WholeSearch(r) =>
       {PageIds(req[r].response)[k] : k \in 1..Len(req[r].response[1])}
         = {i \in DOMAIN policies : OccursInRow(req[r].query.q, policies[i])}

\* C21, for a q that holds neither % nor _: the same selection.
C21_PlainSubstringSearch ==
  \A r \in Requests :
     (/\ WholeSearch(r)
      /\ \A k \in 1..Len(req[r].query.q) : req[r].query.q[k] \notin {"%", "_"})
     => {PageIds(req[r].response)[k] : k \in 1..Len(req[r].response[1])}
          = {i \in DOMAIN policies : OccursInRow(req[r].query.q, policies[i])}

\* ------------------------------------------------------------------ sessions
\* An exception that no except branch of the handler turns into a response
\* (db.rollback() raising inside the except branch, the connection being
\* gone) leaves through the yield of get_db: the server answers 500 and the
\* finally of get_db runs.
unhandled_exception(r) ==
  /\ req[r].pc \in {"commit", "refresh"}
  /\ req' = [req EXCEPT ![r] = Answer(@, 500, None)]
  /\ UNCHANGED <<tables, policies_id_seq, history, company_tables, times>>

\* The handlers of two requests interleaved, with failing commits and
\* exceptions that leave the handler.
SessionFaults == {"none", "commit"}

SessionNext ==
  \/ \E r \in Requests, policy_id \in Ids : get_policy(r, policy_id)
  \/ \E r \in Requests, fault \in SessionFaults :
        create_policy(r, BaseBody, fault)
  \/ \E r \in Requests : create_policy_refresh(r)
  \/ \E r \in Requests, policy_id \in Ids :
        update_policy_query(r, policy_id, BaseBody)
  \/ \E r \in Requests, fault \in SessionFaults : update_policy_commit(r, fault)
  \/ \E r \in Requests : update_policy_refresh(r)
  \/ \E r \in Requests, policy_id \in Ids : delete_policy_query(r, policy_id)
  \/ \E r \in Requests, fault \in SessionFaults : delete_policy_commit(r, fault)
  \/ \E r \in Requests : unhandled_exception(r)

SessionSpec == Init /\ [][SessionNext]_vars

\* The session of slot r: open while its request runs, closed once it ended.
SessionState(r) ==
  /\ req[r].pc = "idle" => req[r].session = "none"
  /\ req[r].pc \in {"commit", "refresh"} => req[r].session = "open"
  /\ req[r].pc = "done" => req[r].session = "closed"

\* A step closes the session of slot r.
Closes(r) == req[r].session # "closed" /\ req'[r].session = "closed"

\* A step ends the request of slot r: one that was running stops, or one
\* arrives and is answered in the same step.
Ends(r) ==
  \/ req[r].pc \in {"commit", "refresh"} /\ req'[r].pc = "done"
  \/ Arrives(r) /\ req'[r].pc = "done"

\* C22: the session a request obtained from get_db is closed by the step
\* that ends the request and by no other, whatever the outcome (200, 404,
\* 500 after a rollback, 500 of an exception nobody caught); no request that
\* has ended holds an open session, under any interleaving of two requests.
C22_SessionClosedOnce ==
  /\ [](\A r \in Requests : SessionState(r))
  /\ [][\A r \in Requests :
          /\ Ends(r) => req'[r].session = "closed"
          /\ Closes(r) => Ends(r)
          /\ (req[r].session = "open" /\ ~Ends(r)) => req'[r].session = "open"]_vars

\* C22 witness: one request failed with an exception nobody caught, after
\* its commit, and the other was answered 404; both sessions are closed.
C22_Witness ==
  \E r, s \in Requests :
     /\ r # s
     /\ req[r].pc = "done" /\ req[r].status = 500 /\ ~req[r].rollback
     /\ req[r].kind = "create_policy" /\ req[r].session = "closed"
     /\ req[s].pc = "done" /\ req[s].status = 404 /\ req[s].session = "closed"

\* C22 witness: a request answered 500 after its rollback while the other
\* still runs with its session open.
C22_WitnessRollback ==
  \E r, s \in Requests :
     /\ req[r].pc = "done" /\ req[r].status = 500 /\ req[r].rollback
     /\ req[r].session = "closed"
     /\ req[s].pc = "commit" /\ req[s].session = "open"

\* ------------------------------------------------------------------ health probes
\* What a probe meets: whether the database answers, whether Redis answers,
\* and the SQLAlchemy release that is installed (the repository pins none).
SQLAlchemy == {"1.x", "2.x"}
Environments == [database : BOOLEAN, redis : BOOLEAN, sqlalchemy : SQLAlchemy]

\* with engine.connect() as connection
EngineConnect(env) == IF env.database THEN "ok" ELSE "raise"

\* connection.execute("SELECT 1"): release 1.x sends the string to the
\* database; release 2.x refuses a plain string (ObjectNotExecutableError)
\* before anything is sent.
ExecuteString(env) ==
  IF env.sqlalchemy = "2.x" THEN "raise"
  ELSE IF env.database THEN "ok" ELSE "raise"

\* redis_client.ping()
Ping(env) == IF env.redis THEN "ok" ELSE "raise"

\* try: ...; return True / except Exception as e: logger.error(...); return False
TryProbe(outcome) ==
  IF outcome = "ok"
  THEN [result |-> TRUE, logged |-> FALSE, raised |-> FALSE]
  ELSE [result |-> FALSE, logged |-> TRUE, raised |-> FALSE]

\* The call of a function that is no route: it holds no session.
Call(r, kind, env, outcome) ==
  req' = [req EXCEPT ![r] = [Idle EXCEPT !.kind = kind, !.query = env,
                                         !.pc = "done",
                                         !.response = Some(outcome)]]

check_database_health(r, env) ==
  /\ Free(r)
  /\ Call(r, "check_database_health", env,
          TryProbe(IF EngineConnect(env) = "ok" THEN ExecuteString(env)
                   ELSE "raise"))
  /\ UNCHANGED <<tables, policies_id_seq, history, company_tables, times>>

check_redis_health(r, env) ==
  /\ Free(r)
  /\ Call(r, "check_redis_health", env, TryProbe(Ping(env)))
  /\ UNCHANGED <<tables, policies_id_seq, history, company_tables, times>>

\* scripts/setup_database.py main: the tables are created only when the
\* database probe returned True; otherwise main logs an error and returns.
setup_database(r, env) ==
  /\ Free(r)
  /\ LET probe == TryProbe(IF EngineConnect(env) = "ok" THEN ExecuteString(env)
                           ELSE "raise")
     IN Call(r, "setup_database", env,
             IF ~probe.result
             THEN [result |-> FALSE, logged |-> TRUE, raised |-> FALSE]
             ELSE [result |-> TRUE, logged |-> FALSE, raised |-> FALSE])
  /\ UNCHANGED <<tables, policies_id_seq, history, company_tables, times>>

ProbeNext ==
  \/ \E r \in Requests, env \in Environments : check_database_health(r, env)
  \/ \E r \in Requests, env \in Environments : check_redis_health(r, env)
  \/ \E r \in Requests, env \in Environments : setup_database(r, env)

ProbeSpec == Init /\ [][ProbeNext]_vars

\* A probe of the given kind has returned in slot r.
Probed(r, kind) == req[r].kind = kind /\ req[r].pc = "done"

\* C23, the part about exceptions: no probe raises, a probe that returns
\* False has logged, the Redis probe returns True exactly when Redis
\* answers, and the database probe returns False when the database is away.
C23_ProbesNeverRaise ==
  \A r \in Requests :
     /\ (Probed(r, "check_database_health") \/ Probed(r, "check_redis_health"))
          => /\ ~req[r].response[1].raised
             /\ ~req[r].response[1].result => req[r].response[1].logged
     /\ Probed(r, "check_redis_health")
          => req[r].response[1].result = req[r].query.redis
     /\ Probed(r, "check_database_health")
          => (req[r].response[1].result => req[r].query.database)

C23_Reached ==
  \E r, s \in Requests :
     /\ Probed(r, "check_database_health")
     /\ req[r].query.database /\ ~req[r].query.redis
     /\ ~req[r].response[1].result
     /\ Probed(s, "check_redis_health")
     /\ req[s].query.redis /\ ~req[s].query.database
     /\ req[s].response[1].result

\* ------------------------------------------------------------------ timestamps
\* The clock readings a behaviour runs through.
MaxClock == 2

\* Time passes: a later datetime.utcnow() returns a later value.
tick ==
  /\ clock < MaxClock
  /\ clock' = clock + 1
  /\ UNCHANGED <<tables, policies_id_seq, req, history, company_tables, stamps>>

TimeBodies == {BaseBody, FullBody}

\* POSTs and PUTs, one after the other, while time passes.
TimeNext ==
  \/ tick
  \/ \E r \in EventLoop, body \in TimeBodies : create_policy(r, body, "none")
  \/ \E r \in EventLoop : create_policy_refresh(r)
  \/ \E r \in EventLoop, policy_id \in Ids, body \in TimeBodies :
        update_policy_query(r, policy_id, body)
  \/ \E r \in EventLoop, fault \in {"none", "commit"} :
        update_policy_commit(r, fault)
  \/ \E r \in EventLoop : update_policy_refresh(r)

TimeSpec == Init /\ [][TimeNext]_vars

\* The step in which the PUT of slot r commits without an error.
PutSucceeds(r) == Commits(r, "update_policy") /\ req'[r].pc = "refresh"

\* created_at never changes, updated_at never decreases and is never
\* earlier than created_at.
StampsOrdered ==
  /\ [](\A i \in DOMAIN stamps : stamps[i].created_at <= stamps[i].updated_at)
  /\ [][\A i \in DOMAIN stamps \cap DOMAIN stamps' :
          /\ stamps'[i].created_at = stamps[i].created_at
          /\ stamps'[i].updated_at >= stamps[i].updated_at]_vars
  /\ [][\A r \in Requests :
          CreateCommits(r) =>
            stamps'[req'[r].policy_id] = [created_at |-> clock, updated_at |-> clock]]_vars

\* C24: created_at is set when the policy is created and no PUT changes it;
\* every successful PUT sets updated_at to the time of the PUT, also a PUT
\* whose payload equals the stored values; updated_at never decreases and
\* is never earlier than created_at.
C24_Timestamps ==
  /\ StampsOrdered
  /\ [][\A r \in Requests :
          PutSucceeds(r) => stamps'[req[r].policy_id].updated_at = clock]_vars

\* C24, amended: a successful PUT sets updated_at to the time of the PUT
\* when its payload differs from the stored row in some column, and leaves
\* updated_at as it was when the payload equals the stored row.
C24_TimestampsOnChange ==
  /\ StampsOrdered
  /\ [][\A r \in Requests :
          PutSucceeds(r) =>
            stamps'[req[r].policy_id].updated_at =
              IF policies'[req[r].policy_id] # policies[req[r].policy_id]
              THEN clock ELSE stamps[req[r].policy_id].updated_at]_vars

\* C24 witness: a policy created at one time and changed by a PUT at a
\* later time, the PUT answered 200.
C24_Witness ==
  \E r \in Requests :
     /\ req[r].kind = "update_policy" /\ req[r].pc = "done"
     /\ req[r].status = 200
     /\ req[r].policy_id \in DOMAIN stamps
     /\ stamps[req[r].policy_id].created_at < stamps[req[r].policy_id].updated_at
     /\ stamps[req[r].policy_id].updated_at = clock

\* C24 witness: a PUT answered 200 whose payload equals the stored row, at a
\* time later than the row's updated_at.
C24_WitnessSamePayload ==
  \E r \in Requests :
     /\ req[r].kind = "update_policy" /\ req[r].pc = "done"
     /\ req[r].status = 200
     /\ req[r].policy_id \in DOMAIN stamps
     /\ Some(policies[req[r].policy_id]) = req[r].db_policy
     /\ stamps[req[r].policy_id].updated_at < clock

\* ------------------------------------------------------------------ status
\* One body per status: BaseBody with the status given.
StatusBody(value) == [status |-> value] @@ BaseBody
StatusBodies == {StatusBody(value) : value \in EnumValues(PolicyStatus)}

\* A table that holds the policy one POST created, in any of the statuses.
StatusInit ==
  \E body \in StatusBodies :
     /\ policies = [i \in {1} |-> DictExcludeId(PolicySchema(body))]
     /\ policies_id_seq = 2
     /\ policy_changes = {}
     /\ impact_assessments = {}
     /\ req = [r \in Requests |-> Idle]
     /\ created = [i \in {1} |-> body]
     /\ updated = {}
     /\ deleted = {}
     /\ companies = <<>>
     /\ company_profiles = {}
     /\ financial_metrics = {}
     /\ clock = 0
     /\ stamps = [i \in DOMAIN policies |-> Inserted(0)]

\* PUTs that carry a status, one after the other.
StatusNext ==
  \/ \E r \in EventLoop, policy_id \in Ids, body \in StatusBodies :
        update_policy_query(r, policy_id, body)
  \/ \E r \in EventLoop : update_policy_commit(r, "none")
  \/ \E r \in EventLoop : update_policy_refresh(r)

StatusSpec == StatusInit /\ [][StatusNext]_vars

\* C25: a PUT that carries status t on an existing policy of status s
\* commits and is answered 200, and the policy then has status t, for every
\* s and t of the seven statuses.
C25_AnyTransition ==
  /\ [][\A r \in Requests :
          Commits(r, "update_policy") =>
            /\ req'[r].pc = "refresh"
            /\ policies'[req[r].policy_id]["status"]
                 = EnumMember(PolicyStatus, req[r].body["status"])]_vars
  /\ [](\A r \in Requests :
          (req[r].kind = "update_policy" /\ req[r].pc = "done"
             /\ req[r].policy_id \in DOMAIN policies)
          => /\ req[r].status = 200
             /\ req[r].response[1]["status"] = req[r].body["status"]
             /\ PolicyStatus[policies[req[r].policy_id]["status"]]
                  = req[r].body["status"])

\* C25 witness: a policy that was REPEALED when the PUT loaded it is DRAFT
\* after the PUT, answered 200.
C25_Witness ==
  \E r \in Requests :
     /\ req[r].kind = "update_policy" /\ req[r].pc = "done"
     /\ req[r].status = 200
     /\ req[r].db_policy[1]["status"] = "REPEALED"
     /\ policies[req[r].policy_id]["status"] = "DRAFT"

\* C25 witness: out of EXPIRED into ENACTED.
C25_WitnessExpired ==
  \E r \in Requests :
     /\ req[r].kind = "update_policy" /\ req[r].pc = "done"
     /\ req[r].status = 200
     /\ req[r].db_policy[1]["status"] = "EXPIRED"
     /\ policies[req[r].policy_id]["status"] = "ENACTED"

\* ------------------------------------------------------------------ generators
MaxCompanies == 10

DigitChars == <<"0", "1", "2", "3", "4", "5", "6", "7", "8", "9">>

\* str(k) for k >= 0: the decimal digits, most significant first.
RECURSIVE Decimal(_)
Decimal(k) ==
  IF k < 10 THEN <<DigitChars[k + 1]>>
  ELSE Append(Decimal(k \div 10), DigitChars[(k % 10) + 1])

\* The format specification width d with zero fill: zeros are put in front
\* of a shorter number, a longer one is left whole.
RECURSIVE ZeroFill(_, _)
ZeroFill(digits, width) ==
  IF Len(digits) >= width THEN digits ELSE ZeroFill(<<"0">> \o digits, width)

\* f"TICK{i+1:03d}"
TickerSymbol(number) == <<"T", "I", "C", "K">> \o ZeroFill(Decimal(number), 3)

\* The loop variable taken as the id: ids from 0.
LoopIndexAsId(i) == i

\* "id": i + 1
IdOf(i) == i + 1

\* What the draw of one iteration comes from: np.random.choice(industries)
IndustryDraws == {"technology", "energy"}

\* generator.generate_companies(num_companies) up to the loop.
generate_companies(r, num_companies) ==
  /\ Free(r)
  /\ req' = [req EXCEPT ![r] =
               [Idle EXCEPT !.kind = "generate_companies", !.pc = "loop",
                            !.query = [num_companies |-> num_companies],
                            !.response = Some(<<>>)]]
  /\ UNCHANGED <<tables, policies_id_seq, history, company_tables, times>>

\* One iteration of for i in range(num_companies): companies.append({...})
generate_companies_append(r, industry) ==
  LET q == req[r]
      i == Len(q.response[1])
  IN /\ q.kind = "generate_companies"
     /\ q.pc = "loop"
     /\ i < q.query.num_companies
     /\ req' = [req EXCEPT ![r].response =
                  Some(Append(q.response[1],
                              [id |-> IdOf(i),
                               ticker_symbol |-> TickerSymbol(i + 1),
                               industry |-> industry]))]
     /\ UNCHANGED <<tables, policies_id_seq, history, company_tables, times>>

\* range(num_companies) is exhausted: return companies
generate_companies_return(r) ==
  /\ req[r].kind = "generate_companies"
  /\ req[r].pc = "loop"
  /\ Len(req[r].response[1]) >= req[r].query.num_companies
  /\ req' = [req EXCEPT ![r].pc = "done"]
  /\ UNCHANGED <<tables, policies_id_seq, history, company_tables, times>>

CompanyGenNext ==
  \/ \E r \in EventLoop, n \in 0..MaxCompanies : generate_companies(r, n)
  \/ \E r \in EventLoop, industry \in IndustryDraws :
        generate_companies_append(r, industry)
  \/ \E r \in EventLoop : generate_companies_return(r)

CompanyGenSpec == Init /\ [][CompanyGenNext]_vars

\* C26: generate_companies(n) returns n records whose ids are 1..n in
\* order and whose ticker symbols differ pairwise, whatever was drawn.
C26_GeneratedCompanies ==
  \A r \in Requests :
     (req[r].kind = "generate_companies" /\ req[r].pc = "done")
     => LET out == req[r].response[1] IN
        /\ Len(out) = req[r].query.num_companies
        /\ \A k \in 1..Len(out) : out[k].id = k
        /\ \A k, l \in 1..Len(out) :
              k # l => out[k].ticker_symbol # out[l].ticker_symbol

\* C26 witness: ten companies returned, the first two drawn alike and the
\* last two not, the tenth with the ticker symbol TICK010.
C26_Witness ==
  \E r \in Requests :
     /\ req[r].kind = "generate_companies" /\ req[r].pc = "done"
     /\ Len(req[r].response[1]) = 10
     /\ req[r].response[1][1].industry = req[r].response[1][2].industry
     /\ req[r].response[1][9].industry # req[r].response[1][10].industry
     /\ req[r].response[1][9].ticker_symbol
          = <<"T", "I", "C", "K", "0", "0", "9">>
     /\ req[r].response[1][10].ticker_symbol
          = <<"T", "I", "C", "K", "0", "1", "0">>

\* C26 witness: generate_companies(0) returned the empty list.
C26_WitnessEmpty ==
  \E r \in Requests :
     /\ req[r].kind = "generate_companies" /\ req[r].pc = "done"
     /\ req[r].query.num_companies = 0
     /\ req[r].response = Some(<<>>)

\* ------------------------------------------------------------------ overlapping PUTs
\* BaseBody with a description.
DescribedBody == [description |-> Some("renamed")] @@ BaseBody

\* Payloads that differ from BaseBody in one column each, and BaseBody.
PutBodies == {BaseBody, StatusBody("enacted"), DescribedBody}

\* A table that holds the policy a POST of BaseBody created.
PutInit ==
  /\ policies = [i \in {1} |-> DictExcludeId(PolicySchema(BaseBody))]
  /\ policies_id_seq = 2
  /\ policy_changes = {}
  /\ impact_assessments = {}
  /\ req = [r \in Requests |-> Idle]
  /\ created = [i \in {1} |-> BaseBody]
  /\ updated = {}
  /\ deleted = {}
  /\ companies = <<>>
  /\ company_profiles = {}
  /\ financial_metrics = {}
  /\ clock = 0
  /\ stamps = [i \in DOMAIN policies |-> Inserted(0)]

\* The PUTs of two requests, interleaved statement by statement.
PutNext ==
  \/ \E r \in Requests, policy_id \in Ids, body \in PutBodies :
        update_policy_query(r, policy_id, body)
  \/ \E r \in Requests : update_policy_commit(r, "none")
  \/ \E r \in Requests : update_policy_refresh(r)

PutSpec == PutInit /\ [][PutNext]_vars

\* The PUT of slot r on policy_id was answered 200.
PutAnswered(r, policy_id) ==
  /\ req[r].kind = "update_policy"
  /\ req[r].pc = "done"
  /\ req[r].status = 200
  /\ req[r].policy_id = policy_id

\* Both slots hold a PUT on policy_id answered 200, and the two had loaded
\* the same row.
BothAnswered(policy_id) ==
  /\ \A r \in Requests : PutAnswered(r, policy_id)
  /\ \A r, s \in Requests : req[r].db_policy = req[s].db_policy

\* C27: when two PUTs on one policy have both been answered 200, the stored
\* policy equals, in every field other than id, the payload of one of them.
C27_NoMixture ==
  \A policy_id \in DOMAIN policies :
     BothAnswered(policy_id) =>
       \E r \in Requests :
          PolicyResponse(policy_id, policies[policy_id])
            = Expected(policy_id, req[r].body)

\* C27, what does hold: every column of the stored policy holds the value
\* one of the two payloads carries for it.
C27_ColumnsFromPayloads ==
  \A policy_id \in DOMAIN policies :
     BothAnswered(policy_id) =>
       \A f \in Fields : \E r \in Requests :
          PolicyResponse(policy_id, policies[policy_id])[f]
            = Expected(policy_id, req[r].body)[f]

\* C27, reached: two PUTs that loaded the same row were both answered 200
\* and the stored policy has the status of one payload and the description
\* of the other.
C27_Mixture ==
  \E policy_id \in DOMAIN policies :
     /\ BothAnswered(policy_id)
     /\ policies[policy_id]["status"] = "ENACTED"
     /\ policies[policy_id]["description"] = Some("renamed")

\* ------------------------------------------------------------------ overlapping DELETEs
\* The DELETE of slot r on policy_id was answered with the confirmation.
DeleteConfirmed(r, policy_id) ==
  /\ req[r].kind = "delete_policy"
  /\ req[r].pc = "done"
  /\ req[r].status = 200
  /\ req[r].policy_id = policy_id

\* C28: of the DELETEs for one id, which a POST created once, at most one
\* is answered with the confirmation, also when two of them overlap.
C28_OneConfirmation ==
  \A policy_id \in DOMAIN created :
     \A r, s \in Requests :
        (DeleteConfirmed(r, policy_id) /\ DeleteConfirmed(s, policy_id)) => r = s

\* C28, what does hold: a DELETE is confirmed only for an id whose row a
\* DELETE has removed, and a DELETE that finds no row is answered 404.
C28_ConfirmedMeansRemoved ==
  \A r \in Requests :
     /\ (req[r].kind = "delete_policy" /\ req[r].pc = "done"
           /\ req[r].status = 200)
        => /\ req[r].policy_id \in deleted
           /\ req[r].policy_id \notin DOMAIN policies
           /\ req[r].db_policy # None
     /\ (req[r].kind = "delete_policy" /\ req[r].pc = "done"
           /\ req[r].db_policy = None)
        => req[r].status = 404

\* C28, reached: two DELETEs for the id of one POST, both confirmed.
C28_BothConfirmed ==
  \E policy_id \in DOMAIN created :
     /\ \A r \in Requests : DeleteConfirmed(r, policy_id)
     /\ policy_id \in deleted

\* ------------------------------------------------------------------ falsy filters
\* The query q with every falsy filter value left out.
Omitted(q) ==
  [q EXCEPT !.jurisdiction = IF @ = Some("") THEN None ELSE @,
            !.industry = IF @ = Some("") THEN None ELSE @,
            !.status = IF @ = Some("") THEN None ELSE @,
            !.category_id = IF @ = Some(0) THEN None ELSE @]

\* GET /policies in slot r was answered 200 and carried a falsy filter value.
FalsyListing(r) ==
  /\ req[r].kind = "get_policies"
  /\ req[r].pc = "done"
  /\ req[r].status = 200
  /\ Omitted(req[r].query) # req[r].query

\* C29: a filter of GET /policies supplied as "" (jurisdiction, industry,
\* status) or 0 (category_id) constrains nothing: the page is a page of the
\* policies that the request without that parameter selects.
C29_FalsyFilterIgnored ==
  \A r \in Requests :
     FalsyListing(r) =>
       LET q == req[r].query
           selected == Selected(Omitted(q))
           page == PageIds(req[r].response)
           rest == IF Cardinality(selected) > q.skip
                   THEN Cardinality(selected) - q.skip ELSE 0
       IN /\ \A k \in 1..Len(page) : page[k] \in selected
          /\ \A k, l \in 1..Len(page) : k # l => page[k] # page[l]
          /\ Len(page) = IF rest < q.limit THEN rest ELSE q.limit

\* C29 witness: a request with category_id=0 and jurisdiction="" and no
\* other filter was answered with every stored policy, among them one of
\* category 1 and one of jurisdiction EU.
C29_Witness ==
  \E r \in Requests :
     /\ FalsyListing(r)
     /\ req[r].query.category_id = Some(0)
     /\ req[r].query.jurisdiction = Some("")
     /\ Len(req[r].response[1]) = Cardinality(DOMAIN policies)
     /\ \E i \in DOMAIN policies : policies[i]["category_id"] = Some(1)
     /\ \E i \in DOMAIN policies : policies[i]["jurisdiction"] = "EU"
     /\ Cardinality(DOMAIN policies) >= 3

\* C29 witness: status="" and industry="" next to a jurisdiction that
\* filters: the page holds the US policies of every status.
C29_WitnessStatus ==
  \E r \in Requests :
     /\ FalsyListing(r)
     /\ req[r].query.status = Some("")
     /\ req[r].query.industry = Some("")
     /\ req[r].query.jurisdiction = Some("US")
     /\ Len(req[r].response[1]) >= 2
     /\ \E k, l \in 1..Len(req[r].response[1]) :
           req[r].response[1][k]["status"] # req[r].response[1][l]["status"]

\* ------------------------------------------------------------------ policy generator
MaxPolicies == 2

\* The names of the categories list of generate_categories, by character.
CategoryNames ==
  <<
     <<"T", "r", "a", "d", "e", " ", "P", "o", "l", "i", "c", "y">>,
     <<"F", "i", "n", "a", "n", "c", "i", "a", "l", " ", "R", "e", "g",
       "u", "l", "a", "t", "i", "o", "n">>,
     <<"E", "n", "v", "i", "r", "o", "n", "m", "e", "n", "t", "a", "l",
       " ", "P", "o", "l", "i", "c", "y">>,
     <<"T", "a", "x", " ", "P", "o", "l", "i", "c", "y">>,
     <<"L", "a", "b", "o", "r", " ", "L", "a", "w">>,
     <<"T", "e", "c", "h", "n", "o", "l", "o", "g", "y", " ", "R", "e",
       "g", "u", "l", "a", "t", "i", "o", "n">>,
     <<"H", "e", "a", "l", "t", "h", "c", "a", "r", "e", " ", "P", "o",
       "l", "i", "c", "y">>,
     <<"E", "n", "e", "r", "g", "y", " ", "P", "o", "l", "i", "c", "y">>,
     <<"D", "a", "t", "a", " ", "P", "r", "i", "v", "a", "c", "y">>,
     <<"A", "n", "t", "i", "t", "r", "u", "s", "t">>
  >>

\* return [{"id": i+1, **cat} for i, cat in enumerate(categories)]
GeneratedCategories ==
  [i \in 1..Len(CategoryNames) |-> [id |-> i, name |-> CategoryNames[i]]]

\* generator.generate_categories()
generate_categories(r) ==
  /\ Free(r)
  /\ req' = [req EXCEPT ![r] =
               [Idle EXCEPT !.kind = "generate_categories", !.pc = "done",
                            !.response = Some(GeneratedCategories)]]
  /\ UNCHANGED <<tables, policies_id_seq, history, company_tables, times>>

\* str.upper() of one character.
Upper(c) ==
  IF \E u \in DOMAIN LowerOf : LowerOf[u] = c
  THEN CHOOSE u \in DOMAIN LowerOf : LowerOf[u] = c ELSE c

\* text[:3]
FirstThree(text) == SubSeq(text, 1, IF Len(text) < 3 THEN Len(text) ELSE 3)

\* category['name'].replace(' ', '')[:3].upper()
CategoryCode(name) ==
  LET kept == FirstThree(SelectSeq(name, LAMBDA c : c # " "))
  IN [k \in 1..Len(kept) |-> Upper(kept[k])]

\* A policy_number without the running number.
PolicyNumberNoCounter(jurisdiction, category, number) ==
  jurisdiction \o <<"-">> \o CategoryCode(category.name)

\* f"{jurisdiction}-{category['name'].replace(' ', '')[:3].upper()}-{i+1:04d}"
PolicyNumber(jurisdiction, category, number) ==
  jurisdiction \o <<"-">> \o CategoryCode(category.name) \o <<"-">>
    \o ZeroFill(Decimal(number), 4)

\* Dates count half days.  (end_date - start_date).days: whole days.
Days(start_date, end_date) == (end_date - start_date) \div 2

\* The categories lists a caller supplies: the generated one, one with ids
\* of its own, and the empty one.
SuppliedCategories ==
  { GeneratedCategories,
    << [id |-> 7, name |-> <<"T", "a", "x">>],
       [id |-> 3, name |-> <<"T", "a", "x", " ", "L", "a", "w">>] >>,
    <<>> }

\* end_date half a day, a day or two days after start_date = 0.
EndDates == {1, 2, 4}

\* np.random.choice(jurisdictions)
JurisdictionDraws == {<<"U", "S">>, <<"E", "U">>}

\* generator.generate_policies(num_policies, start_date, end_date, categories)
\* up to the loop.
generate_policies(r, num_policies, end_date, categories) ==
  /\ Free(r)
  /\ req' = [req EXCEPT ![r] =
               [Idle EXCEPT !.kind = "generate_policies", !.pc = "loop",
                            !.query = [num_policies |-> num_policies,
                                       start_date |-> 0, end_date |-> end_date,
                                       categories |-> categories],
                            !.response = Some(<<>>)]]
  /\ UNCHANGED <<tables, policies_id_seq, history, company_tables, times>>

\* One iteration of for i in range(num_policies): policies.append({...})
generate_policies_append(r, jurisdiction, choice, offset) ==
  LET q == req[r]
      i == Len(q.response[1])
      category == q.query.categories[choice]
  IN /\ q.kind = "generate_policies"
     /\ q.pc = "loop"
     /\ i < q.query.num_policies
     /\ choice \in 1..Len(q.query.categories)
     /\ offset \in 0..(Days(q.query.start_date, q.query.end_date) - 1)
     /\ req' = [req EXCEPT ![r].response =
                  Some(Append(q.response[1],
                         [id |-> IdOf(i),
                          policy_number |-> PolicyNumber(jurisdiction, category, i + 1),
                          jurisdiction |-> jurisdiction,
                          proposed_date |-> q.query.start_date + 2 * offset,
                          category_id |-> category.id]))]
     /\ UNCHANGED <<tables, policies_id_seq, history, company_tables, times>>

\* np.random.choice of an empty list, and np.random.randint(0, 0) when
\* end_date is less than a day after start_date, raise ValueError.
generate_policies_raise(r) ==
  LET q == req[r] IN
  /\ q.kind = "generate_policies"
  /\ q.pc = "loop"
  /\ Len(q.response[1]) < q.query.num_policies
  /\ \/ Len(q.query.categories) = 0
     \/ Days(q.query.start_date, q.query.end_date) <= 0
  /\ req' = [req EXCEPT ![r].pc = "done", ![r].response = None,
                        ![r].fault = "ValueError"]
  /\ UNCHANGED <<tables, policies_id_seq, history, company_tables, times>>

\* range(num_policies) is exhausted: return policies
generate_policies_return(r) ==
  /\ req[r].kind = "generate_policies"
  /\ req[r].pc = "loop"
  /\ Len(req[r].response[1]) >= req[r].query.num_policies
  /\ req' = [req EXCEPT ![r].pc = "done"]
  /\ UNCHANGED <<tables, policies_id_seq, history, company_tables, times>>

PolicyGenNext ==
  \/ \E r \in EventLoop : generate_categories(r)
  \/ \E r \in EventLoop, n \in 0..MaxPolicies, end_date \in EndDates,
        categories \in SuppliedCategories :
        generate_policies(r, n, end_date, categories)
  \/ \E r \in EventLoop, jurisdiction \in JurisdictionDraws,
        choice \in 1..Len(CategoryNames), offset \in 0..1 :
        generate_policies_append(r, jurisdiction, choice, offset)
  \/ \E r \in EventLoop : generate_policies_raise(r)
  \/ \E r \in EventLoop : generate_policies_return(r)

PolicyGenSpec == Init /\ [][PolicyGenNext]_vars

\* generate_policies has returned a list in slot r.
Generated(r) ==
  /\ req[r].kind = "generate_policies"
  /\ req[r].pc = "done"
  /\ req[r].response # None

\* C30: generate_categories returns a non-empty list with the ids 1, 2, ...
\* in order; every policy generate_policies returns has the id of one of the
\* supplied categories as category_id, an id in 1..n, and a policy_number
\* no other returned policy has.
C30_GeneratedPolicies ==
  \A r \in Requests :
     /\ (req[r].kind = "generate_categories" /\ req[r].pc = "done")
        => /\ Len(req[r].response[1]) > 0
           /\ \A k \in 1..Len(req[r].response[1]) : req[r].response[1][k].id = k
     /\ Generated(r)
        => LET out == req[r].response[1]
               supplied == req[r].query.categories
           IN /\ req[r].query.start_date < req[r].query.end_date
              /\ \A k \in 1..Len(out) :
                    /\ \E c \in 1..Len(supplied) : out[k].category_id = supplied[c].id
                    /\ out[k].id \in 1..req[r].query.num_policies
              /\ \A k, l \in 1..Len(out) :
                    k # l => out[k].policy_number # out[l].policy_number

\* C30 witness: two policies returned for categories with ids of their own,
\* both drawn with the same jurisdiction and with categories of the same
\* three-letter code.
C30_Witness ==
  \E r \in Requests :
     /\ Generated(r)
     /\ Len(req[r].response[1]) = 2
     /\ req[r].query.categories # GeneratedCategories
     /\ req[r].response[1][1].category_id = 7
     /\ req[r].response[1][2].category_id = 3
     /\ req[r].response[1][1].policy_number
          = <<"U", "S", "-", "T", "A", "X", "-", "0", "0", "0", "1">>
     /\ req[r].response[1][2].policy_number
          = <<"U", "S", "-", "T", "A", "X", "-", "0", "0", "0", "2">>

\* C30 witness: the ten generated categories returned.
C30_WitnessCategories ==
  \E r \in Requests :
     /\ req[r].kind = "generate_categories" /\ req[r].pc = "done"
     /\ Len(req[r].response[1]) = 10

\* C30 witness: generate_policies raised, end_date being half a day after
\* start_date.
C30_WitnessRaised ==
  \E r \in Requests :
     /\ req[r].kind = "generate_policies" /\ req[r].pc = "done"
     /\ req[r].response = None
     /\ req[r].query.end_date = 1
     /\ req[r].query.categories = GeneratedCategories

====
